---- MODULE Spec2Model ----
(***************************************************************************)
(* GridNinja backend: thermal twin, ramp planner and decision orchestrator *)
(* (backend/app/services/{physics_engine,policy_engine,digital_twin}.py).  *)
(*                                                                         *)
(* Numbers.  The program computes in binary floating point; the model      *)
(* computes in fixed point over the integers:                              *)
(*   - temperatures and physics powers in units of 1/U   (U = 2^10),       *)
(*   - delta-P magnitudes of the planner in units of 1/Fine (Fine = 2^20), *)
(*     so that the 20 halvings of the bisection are exact for a cap of a   *)
(*     whole number of kW, as they are in IEEE doubles,                    *)
(*   - grid headroom in whole kW,                                          *)
(*   - capacity loss in units of 1e-14.                                    *)
(* Divisions round toward minus infinity.                                  *)
(***************************************************************************)
EXTENDS Integers, Sequences, FiniteSets, TLC

U == 2^10
Fine == 2^20
FinePerU == 2^10

Max(a, b) == IF a >= b THEN a ELSE b
Min(a, b) == IF a <= b THEN a ELSE b
Abs(a) == IF a >= 0 THEN a ELSE 0 - a
Clamp(lo, hi, x) == Max(lo, Min(hi, x))

\* floor(a * b / c) for c > 0 and small b, without forming a * b
MulDiv(a, b, c) == (a \div c) * b + ((a % c) * b) \div c

None == <<>>
Some(v) == <<v>>

(***************************************************************************)
(* domain.py: ThermalTwinConfig defaults (scaled)                          *)
(***************************************************************************)
ThermalTwinConfig ==
    [ K_transfer10       |-> 25,          \* 2.5 kW/C, in tenths
      T_max              |-> 50 * U,
      T_ambient          |-> 20 * U,
      T_min              |-> 18 * U,
      Cooling_Ramp_Max   |-> 150 * U,     \* per second
      Cooling_COP10      |-> 40,          \* 4.0, in tenths
      T_setpoint         |-> 30 * U,
      T_deadband         |-> U \div 2,
      Cooling_Min_KW     |-> 50 * U,
      Cooling_Max_KW     |-> 2000 * U,
      Kp_temp_kw_per_c   |-> 80,
      coolant_volume_ml  |-> 60,          \* 0.06 m^3, in litres
      use_dynamic_coolant_mass |-> TRUE,
      C_mass             |-> 150 ]

ThermalTwinState(T, P) == [T_c |-> T, P_cool_kw |-> P]

(***************************************************************************)
(* physics_engine.py                                                       *)
(***************************************************************************)
\* (rho, cp) of the water/glycol mix, both in tenths
get_coolant_props(T_c) ==
    LET rho == 10500 - (5 * T_c) \div U
        cp  == 38000 + (15 * T_c) \div U
    IN  [rho10 |-> Clamp(9000, 11000, rho), cp10 |-> Clamp(25000, 45000, cp)]

\* effective thermal mass in tenths of kJ/C
dynamic_C_mass(cfg, st) ==
    IF ~cfg.use_dynamic_coolant_mass
    THEN cfg.C_mass * 10
    ELSE LET p == get_coolant_props(st.T_c)
             C10 == (((p.rho10 * p.cp10) \div 1000) * cfg.coolant_volume_ml) \div 10000
         IN  Max(1, C10)

\* variant: only the upper limit of the actuator kept
clamp_cooling_upper(cfg, kw) == Min(cfg.Cooling_Max_KW, kw)

\* max(Cooling_Min_KW, min(Cooling_Max_KW, kw))
clamp_cooling(cfg, kw) == Clamp(cfg.Cooling_Min_KW, cfg.Cooling_Max_KW, kw)

\* variant: the actuator following its target at once
delta_cool_unlimited(cfg, delta_cool, dt_s) == delta_cool

\* the actuator's ramp limit: delta_cool clamped to +-Cooling_Ramp_Max * dt
delta_cool_clamped(cfg, delta_cool, dt_s) ==
    LET max_change == cfg.Cooling_Ramp_Max * dt_s
    IN  Max(0 - max_change, Min(max_change, delta_cool))

\* the temperature after integration, floored at T_min
next_temp_c(cfg, T_c, delta_T) == Max(cfg.T_min, T_c + delta_T)

predict(cfg, st, P_it_kw, dt_s) ==
    LET q_passive == (cfg.K_transfer10 * (st.T_c - cfg.T_ambient)) \div 10
        heat_to_remove_kw == Max(0, P_it_kw - q_passive)
        temp_err == st.T_c - cfg.T_setpoint
        target_heat_removed_kw ==
            IF temp_err <= 0 - cfg.T_deadband
            THEN heat_to_remove_kw \div 10
            ELSE IF Abs(temp_err) <= cfg.T_deadband
                 THEN (heat_to_remove_kw * 3) \div 10
                 ELSE heat_to_remove_kw + cfg.Kp_temp_kw_per_c * temp_err
        cop10 == Max(1, cfg.Cooling_COP10)
        target_cooling_kw ==
            clamp_cooling(cfg, MulDiv(target_heat_removed_kw, 10, cop10))
        delta_cool == target_cooling_kw - st.P_cool_kw
        next_cooling_kw ==
            clamp_cooling(cfg, st.P_cool_kw
                                 + delta_cool_clamped(cfg, delta_cool, dt_s))
        q_active == (next_cooling_kw * cop10) \div 10
        net_heat_kw == P_it_kw - (q_passive + q_active)
        C_mass10 == dynamic_C_mass(cfg, st)
        delta_T == MulDiv(net_heat_kw, dt_s * 10, C_mass10)
        T_next == next_temp_c(cfg, st.T_c, delta_T)
    IN  [ rack_temp_c_next |-> T_next,
          cooling_kw_next  |-> next_cooling_kw,
          thermal_ok_next  |-> T_next < cfg.T_max ]

step(cfg, st, P_it_kw, dt_s) ==
    LET pred == predict(cfg, st, P_it_kw, dt_s)
    IN  ThermalTwinState(pred.rack_temp_c_next, pred.cooling_kw_next)

(***************************************************************************)
(* domain.py: BatteryDegradationConfig, trace events, plan rows            *)
(***************************************************************************)
\* 1e7 * exp(-Ea / (R_gas * (T + 273.15))) for T = 0, 1, ... , 56 C,
\* Ea = 24500 J/mol, R_gas = 8.314 J/(mol K)
ArrheniusTable ==
    << 206, 215, 223, 232, 241, 251, 260, 270, 281, 291, 302, 313, 325, 337,
       349, 362, 375, 388, 402, 416, 431, 446, 461, 477, 493, 510, 527, 545,
       563, 581, 600, 620, 640, 660, 681, 703, 725, 748, 771, 794, 819, 844,
       869, 895, 922, 949, 977, 1006, 1035, 1065, 1096, 1127, 1159, 1191,
       1225, 1259, 1294 >>

BatteryDegradationConfig ==
    [ k_aging_e7 |-> 1,                           \* 1e-7
      max_cap_loss_frac_per_decision |-> 5 * 10^8, \* 5e-6, in units of 1e-14
      max_temp_for_aging_c |-> 55 * U ]

\* math.exp(-Ea / (R_gas * T_k)) * 1e7, linear between whole degrees
aging_factor(T_c) ==
    LET t  == Clamp(0, 55 * U, T_c)
        d  == t \div U
        fr == t % U
        lo == ArrheniusTable[d + 1]
        hi == ArrheniusTable[d + 2]
    IN  lo + ((hi - lo) * fr) \div U

\* capacity-loss increment in units of 1e-14; throughput in 1/U kW
arrhenius_aging_step(bcfg, T_c, throughput_kw, dt_s) ==
    LET T    == Min(T_c, bcfg.max_temp_for_aging_c)
        thr  == Max(0, throughput_kw)
        dcap == MulDiv(thr, bcfg.k_aging_e7 * aging_factor(T) * dt_s, U)
    IN  Max(0, dcap)

\* DecisionTraceEvent as emit() dumps it; emit() sets no phase
DecisionTraceEvent(did, component, rule_id, status, severity, value, threshold, proposed, approved) ==
    [ decision_id |-> did, phase |-> "null", component |-> component,
      rule_id |-> rule_id, status |-> status, severity |-> severity,
      value |-> value, threshold |-> threshold,
      proposed_deltaP_kw |-> proposed, approved_deltaP_kw |-> approved ]

RampPlanStep(i, dt_s, next_delta, pred, ok, reason) ==
    [ t_offset_s |-> i * dt_s, proposed_deltaP_kw |-> next_delta,
      rack_temp_c |-> pred.rack_temp_c_next, cooling_kw |-> pred.cooling_kw_next,
      thermal_ok |-> ok, reason |-> reason ]

\* 1e-6 kW in units of 1/Fine, rounded down
Eps6 == 1

(***************************************************************************)
(* policy_engine.py: simulate_candidate                                    *)
(* c: the enclosing call's P_site_kw, cfg, dt_s, ramp_rate,                *)
(*    steps_n, decision_id;  a: the loop's locals, a.st being the state    *)
(*    object the simulation's twin steps on                                *)
(***************************************************************************)
\* variant: the step taken to the target at once
delta_step_unlimited(delta_err, max_step) == delta_err

\* the ramp-rate limit on one step of delta-P
delta_step(delta_err, max_step) ==
    Max(0 - max_step, Min(max_step, delta_err))

\* variant: gate A only refusing a negative margin
margin_too_thin_negative(thermal_margin_c) == thermal_margin_c < 0

\* gate A: "if thermal_margin_c < 0.5"
margin_too_thin(thermal_margin_c) == thermal_margin_c < U \div 2

RECURSIVE SimLoop(_, _, _, _)

\* the loop body from the battery-aging proxy on: pred is th.predict()'s
\* answer for this step, ev_ramp the RAMP_RATE_LIMIT event (if any)
sim_step(c, desired_kw, i, a, next_delta, ev_ramp, P_total_kw, pred) ==
    LET batt_cfg   == BatteryDegradationConfig
        throughput_kw == Abs(next_delta) \div FinePerU
                         + Abs(pred.cooling_kw_next - a.st.P_cool_kw)
        dcap == arrhenius_aging_step(batt_cfg, pred.rack_temp_c_next,
                                     throughput_kw, c.dt_s)
        cap_loss_accum == a.cap_loss_accum + dcap
        ev_aging == << DecisionTraceEvent(c.decision_id, "POLICY",
                        "BATTERY_AGING_STEP", "INFO", "LOW", Some(dcap),
                        Some(batt_cfg.max_cap_loss_frac_per_decision),
                        Some(next_delta), Some(next_delta)) >>
        evs == a.events \o ev_ramp \o ev_aging
        margin_c == c.cfg.T_max - pred.rack_temp_c_next
        Fail(ev, reason) ==
            [ok |-> FALSE,
             steps |-> Append(a.step_rows,
                         RampPlanStep(i, c.dt_s, next_delta, pred, FALSE, reason)),
             caploss |-> cap_loss_accum,
             events |-> Append(evs, ev),
             sim_state |-> a.st]
    IN  IF margin_too_thin(margin_c)
        THEN Fail(DecisionTraceEvent(c.decision_id, "THERMAL",
                    "THERMAL_MARGIN_TOO_THIN", "BLOCKED", "MEDIUM",
                    Some(pred.rack_temp_c_next), Some(c.cfg.T_max - U \div 2),
                    Some(next_delta), Some(0)),
                  "THERMAL_MARGIN_TOO_THIN")
        ELSE IF ~pred.thermal_ok_next
        THEN Fail(DecisionTraceEvent(c.decision_id, "THERMAL",
                    "THERMAL_OVER_TEMP", "BLOCKED", "HIGH",
                    Some(pred.rack_temp_c_next), Some(c.cfg.T_max),
                    Some(next_delta), Some(0)),
                  "THERMAL_OVER_TEMP")
        ELSE IF cap_loss_accum > batt_cfg.max_cap_loss_frac_per_decision
        THEN Fail(DecisionTraceEvent(c.decision_id, "POLICY",
                    "BATTERY_WEAR_BLOCKED", "BLOCKED", "MEDIUM",
                    Some(cap_loss_accum),
                    Some(batt_cfg.max_cap_loss_frac_per_decision),
                    Some(desired_kw), Some(0)),
                  "BATTERY_WEAR_BLOCKED")
        ELSE SimLoop(c, desired_kw, i + 1,
                [ st |-> step(c.cfg, a.st, P_total_kw, c.dt_s),
                  current_delta |-> next_delta,
                  cap_loss_accum |-> cap_loss_accum,
                  step_rows |-> Append(a.step_rows,
                        RampPlanStep(i, c.dt_s, next_delta, pred, TRUE, "OK")),
                  events |-> Append(evs,
                        DecisionTraceEvent(c.decision_id, "THERMAL",
                            "THERMAL_PREDICT_STEP", "ALLOWED", "LOW",
                            Some(pred.rack_temp_c_next), Some(c.cfg.T_max),
                            Some(next_delta), Some(next_delta))) ])

\* "for i in range(steps_n)": the ramp-rate limit, then th.predict()
SimLoop(c, desired_kw, i, a) ==
    IF i >= c.steps_n
    THEN [ok |-> TRUE, steps |-> a.step_rows, caploss |-> a.cap_loss_accum,
          events |-> a.events, sim_state |-> a.st]
    ELSE
    LET delta_err  == desired_kw - a.current_delta
        max_step   == c.ramp_rate_kw_per_s * c.dt_s * Fine
        d_step     == delta_step(delta_err, max_step)
        next_delta == a.current_delta + d_step
        ev_ramp ==
            IF Abs(d_step) >= max_step /\ Abs(delta_err) > Eps6
            THEN << DecisionTraceEvent(c.decision_id, "RAMP", "RAMP_RATE_LIMIT",
                        "INFO", "LOW", Some(d_step), Some(max_step),
                        Some(desired_kw), Some(next_delta)) >>
            ELSE << >>
        P_total_kw == c.P_site_kw + next_delta \div FinePerU
    IN  sim_step(c, desired_kw, i, a, next_delta, ev_ramp, P_total_kw,
                 predict(c.cfg, a.st, P_total_kw, c.dt_s))

\* variant: the twin built on the caller's state object itself
caller_state_aliased(state, sim_state) == sim_state

\* the caller's state object once a simulation has run: sim_state is a fresh
\* ThermalTwinState built from the caller's fields, so the caller's is as it was
caller_state_after(state, sim_state) == state

\* the closure's "state" is the caller's ThermalTwinState object; the answer
\* carries, besides (ok, step_rows, cap_loss_accum) and the events emitted,
\* that object as the simulation leaves it
candidate_answer(state, r) ==
    [ ok |-> r.ok, steps |-> r.steps, caploss |-> r.caploss,
      events |-> r.events, state |-> caller_state_after(state, r.sim_state) ]

simulate_candidate(c, state, desired_kw) ==
    candidate_answer(state,
        SimLoop(c, desired_kw, 0,
                [ st |-> ThermalTwinState(state.T_c, state.P_cool_kw),
                  current_delta |-> 0, cap_loss_accum |-> 0,
                  step_rows |-> << >>, events |-> << >> ]))

(***************************************************************************)
(* policy_engine.py: build_ramp_plan                                       *)
(***************************************************************************)
\* largest whole kW a delta-P in units of 1/Fine can hold
MaxFineKW == 2^11 - 1

\* whole kW -> units of 1/Fine, saturating above every representable request
ToFine(kw) == Min(kw, MaxFineKW) * Fine

\* variant: the search stopped one halving early
BisectItersShort == 20 - 1

BisectIters == 20

\* variant: the clamp forgotten, the request taken as the cap
deltaP_cap_unclamped(req, headroom) == req

\* the grid clamp: min(req, headroom), req in 1/Fine kW, headroom in kW
deltaP_cap(req, headroom) == Min(req, ToFine(headroom))

RampPlan(req, approved, blocked, reason, primary, val, thresh, steps) ==
    [ requested_deltaP_kw |-> req, approved_deltaP_kw |-> approved,
      blocked |-> blocked, reason |-> reason, primary_constraint |-> primary,
      constraint_value |-> val, constraint_threshold |-> thresh,
      steps |-> steps ]

\* variant: the upper end of the bracket tried instead of its middle
midpoint_upper(low, high) == high

\* "mid = (low + high) / 2.0"
midpoint(low, high) == low + (high - low) \div 2

RECURSIVE Bisect(_, _, _)

\* the loop body after the probe: r is simulate_candidate(mid); b holds the
\* loop's locals low, high, best, best_steps, best_cap_loss, the events
\* emitted so far, the candidates simulated and the caller's state object
bisect_probe(c, k, b, mid, r) ==
    LET ev  == b.events \o r.events
        cs  == Append(b.candidates, [desired_kw |-> mid, ok |-> r.ok,
                                     steps |-> r.steps,
                                     events |-> r.events])
    IN  IF r.ok
        THEN Bisect(c, k + 1,
               [ low |-> mid, high |-> b.high, best |-> mid,
                 best_steps |-> r.steps, best_cap_loss |-> r.caploss,
                 events |-> ev, candidates |-> cs, state |-> r.state ])
        ELSE Bisect(c, k + 1,
               [ low |-> b.low, high |-> mid, best |-> b.best,
                 best_steps |-> b.best_steps,
                 best_cap_loss |-> b.best_cap_loss,
                 events |-> ev, candidates |-> cs, state |-> r.state ])

\* the loop "for _ in range(20)"
Bisect(c, k, b) ==
    IF k >= BisectIters THEN b
    ELSE LET mid == midpoint(b.low, b.high)
         IN  bisect_probe(c, k, b, mid, simulate_candidate(c, b.state, mid))

\* "Finalize": b is the search's result, r_max the simulation of the whole
\* cap ("simulate max request to see what breaks"), pred the one-step
\* prediction at the cap
finalize_plan(cfg, decision_id, req, headroom, cap, b, r_max, pred) ==
    LET batt_cfg == BatteryDegradationConfig
        best    == b.best
        blocked == best <= Eps6
        probed  == blocked /\ ~(cap <= Eps6)
        why ==
            IF ~blocked THEN [reason |-> "OK", pc |-> None, val |-> None,
                              thresh |-> None]
            ELSE IF cap <= Eps6
            THEN [reason |-> "GRID_HEADROOM_ZERO", pc |-> Some("GRID"),
                  val |-> Some(req), thresh |-> Some(headroom)]
            ELSE IF r_max.ok
            THEN [reason |-> "OK", pc |-> None, val |-> None, thresh |-> None]
            ELSE IF r_max.caploss > batt_cfg.max_cap_loss_frac_per_decision
            THEN [reason |-> "BATTERY_WEAR_BLOCKED", pc |-> Some("POLICY"),
                  val |-> Some(r_max.caploss),
                  thresh |-> Some(batt_cfg.max_cap_loss_frac_per_decision)]
            ELSE [reason |-> "THERMAL_BLOCKED", pc |-> Some("THERMAL"),
                  val |-> Some(pred.rack_temp_c_next), thresh |-> Some(cfg.T_max)]
        ev_search == IF probed THEN b.events \o r_max.events ELSE b.events
        ev_final == DecisionTraceEvent(decision_id, "POLICY",
                        "APPROVED_DELTA_SELECTED",
                        IF blocked THEN "BLOCKED" ELSE "ALLOWED",
                        IF blocked THEN "HIGH" ELSE "LOW",
                        None, None, Some(req), Some(best))
    IN  [ approved |-> best,
          plan |-> RampPlan(req, best, blocked, why.reason, why.pc, why.val,
                            why.thresh, b.best_steps),
          trace |-> Append(ev_search, ev_final),
          candidates |-> IF probed
                         THEN Append(b.candidates,
                                [desired_kw |-> cap, ok |-> r_max.ok,
                                 steps |-> r_max.steps,
                                 events |-> r_max.events])
                         ELSE b.candidates,
          state |-> IF probed THEN r_max.state ELSE b.state,
          debug |-> [grid_headroom_kw |-> headroom] ]

\* from the end of the search to the return: the simulation of the whole cap
\* and the one-step prediction at the cap, both from the caller's state
diagnose_and_finalize(c, req, headroom, cap, b) ==
    finalize_plan(c.cfg, c.decision_id, req, headroom, cap, b,
        simulate_candidate(c, b.state, cap),
        predict(c.cfg, ThermalTwinState(b.state.T_c, b.state.P_cool_kw),
                c.P_site_kw + cap \div FinePerU, c.dt_s))

\* P_site_kw in 1/U kW, grid_headroom_kw in whole kW, deltaP_request_kw in
\* 1/Fine kW.  Returns approved, plan, the events appended to trace_sink,
\* (for the properties about candidate simulations) every candidate run, the
\* caller's state object as the call leaves it, and the debug dict (of which
\* only grid_headroom_kw is kept).
build_ramp_plan(P_site_kw, grid_headroom_kw, cfg, state, deltaP_request_kw, horizon_s, dt_s, ramp_rate_kw_per_s, decision_id) ==
    LET req        == Max(0, deltaP_request_kw)
        headroom   == Max(0, grid_headroom_kw)
        cap        == deltaP_cap(req, headroom)
        ev_clamp == << DecisionTraceEvent(decision_id, "GRID",
                        "GRID_HEADROOM_CLAMP", "INFO", "LOW", Some(req),
                        Some(headroom), Some(req), Some(cap)) >>
        ev_reduced ==
            IF cap < req
            THEN << DecisionTraceEvent(decision_id, "GRID",
                        "GRID_HEADROOM_REDUCED_ACTION", "BLOCKED", "MEDIUM",
                        None, None, Some(req), Some(cap)) >>
            ELSE << >>
        ev_grid == ev_clamp \o ev_reduced
    IN
    IF cap <= 0
    THEN [ approved |-> 0,
           plan |-> RampPlan(req, 0, TRUE, "GRID_HEADROOM_ZERO", None, None,
                             None, << >>),
           trace |-> Append(ev_grid,
                        DecisionTraceEvent(decision_id, "GRID",
                            "GRID_HEADROOM_ZERO", "BLOCKED", "HIGH", None, None,
                            Some(req), Some(0))),
           candidates |-> << >>,
           state |-> state,
           debug |-> [grid_headroom_kw |-> headroom] ]
    ELSE
    LET c == [ P_site_kw |-> P_site_kw, cfg |-> cfg,
               dt_s |-> dt_s, ramp_rate_kw_per_s |-> ramp_rate_kw_per_s,
               steps_n |-> Max(1, horizon_s \div dt_s),
               decision_id |-> decision_id ]
    IN  diagnose_and_finalize(c, req, headroom, cap,
            Bisect(c, 0, [ low |-> 0, high |-> cap, best |-> 0,
                           best_steps |-> << >>, best_cap_loss |-> 0,
                           events |-> ev_grid, candidates |-> << >>,
                           state |-> state ]))

(***************************************************************************)
(* digital_twin.py: DigitalTwinService                                     *)
(***************************************************************************)
TraceMaxLen == 600

\* variant: only an event whose phase is spelled out counts as final
is_final_phase_strict(e) == e.phase = "final"

\* compute_trace_kpis: an event without a phase counts as final
is_final_phase(e) == e.phase # "candidate"

\* variant: a deque without maxlen
push_trace_unbounded(ring, evs) == ring \o evs

\* deque(maxlen=600).append for each event of evs, in order
push_trace(ring, evs) ==
    LET all == ring \o evs
        n   == Len(all)
    IN  IF n <= TraceMaxLen THEN all
        ELSE SubSeq(all, n - TraceMaxLen + 1, n)

\* heuristic confidence, in hundredths; margin follows the unit of the
\* primary constraint's evidence
confidence_of(plan, approved_kw, deltaP_request_kw) ==
    LET base == IF plan.blocked THEN 40
                ELSE IF Abs(approved_kw) < Abs(deltaP_request_kw) THEN 65
                ELSE 85
        one  == IF plan.primary_constraint = Some("THERMAL") THEN U
                ELSE IF plan.primary_constraint = Some("GRID") THEN Fine
                ELSE 1
        thr  == IF plan.primary_constraint = Some("GRID")
                THEN ToFine(plan.constraint_threshold[1])
                ELSE plan.constraint_threshold[1]
        margin == thr - plan.constraint_value[1]
    IN  IF plan.constraint_value # None /\ plan.constraint_threshold # None
        THEN IF margin < 0 THEN Min(base, 35)
             ELSE IF 2 * margin < one THEN Min(base, 55)
             ELSE IF margin < one THEN Min(base, 70)
             ELSE base
        ELSE base

(***************************************************************************)
(* Python floats (IEEE 754 binary64) as far as compute_trace_kpis needs    *)
(* them.  A natural number is a sequence of bits, most significant first;  *)
(* a float is [m |-> 53 bits, the first one 1, e |-> exponent of the last  *)
(* bit], standing for m * 2^e, or FloatZero.                               *)
(***************************************************************************)
MantissaBits == 53

Zeros(n) == [ i \in 1..n |-> 0 ]

RECURSIVE BitsToInt(_, _)
\* the number the first n bits of a stand for
BitsToInt(a, n) ==
    IF n = 0 THEN 0 ELSE 2 * BitsToInt(a, n - 1) + a[n]

\* the position of the first 1 in a
FirstOne(a) ==
    CHOOSE i \in 1..Len(a) : a[i] = 1 /\ \A j \in 1..(i - 1) : a[j] = 0

StripZeros(a) ==
    IF \A i \in 1..Len(a) : a[i] = 0 THEN << >>
    ELSE SubSeq(a, FirstOne(a), Len(a))

\* a written with n bits (n >= Len(a))
PadTo(a, n) == Zeros(n - Len(a)) \o a

\* carry-select addition of the bits lo..hi of a and b: the sum bits and the
\* carry out for carry in 0 (s0, c0) and for carry in 1 (s1, c1)
add_bit(u) ==
    [ s0 |-> << u % 2 >>, c0 |-> u \div 2,
      s1 |-> << (u + 1) % 2 >>, c1 |-> (u + 1) \div 2 ]

\* the upper block hi and the lower block lo of a sum put together
add_join(hi, lo) ==
    [ s0 |-> (IF lo.c0 = 1 THEN hi.s1 ELSE hi.s0) \o lo.s0,
      c0 |-> IF lo.c0 = 1 THEN hi.c1 ELSE hi.c0,
      s1 |-> (IF lo.c1 = 1 THEN hi.s1 ELSE hi.s0) \o lo.s1,
      c1 |-> IF lo.c1 = 1 THEN hi.c1 ELSE hi.c0 ]

RECURSIVE AddBlock(_, _, _, _)
AddBlock(a, b, lo, hi) ==
    IF lo = hi THEN add_bit(a[lo] + b[lo])
    ELSE add_join(AddBlock(a, b, lo, (lo + hi) \div 2),
                  AddBlock(a, b, (lo + hi) \div 2 + 1, hi))

\* a + b for bit sequences of one length >= 1, carry out in front
add_carry_out(blk) == (IF blk.c0 = 1 THEN << 1 >> ELSE << >>) \o blk.s0

BitsAddPadded(a, b) == add_carry_out(AddBlock(a, b, 1, Len(a)))

BitsAdd(a, b) ==
    BitsAddPadded(PadTo(a, Max(Len(a), Len(b))), PadTo(b, Max(Len(a), Len(b))))

\* the bits of a, each inverted
Complement(a) == [ i \in 1..Len(a) |-> 1 - a[i] ]

\* a - b for a >= b, b padded to the length of a: a + ~b + 1 without the
\* carry out
BitsSub(a, b) == AddBlock(a, Complement(PadTo(b, Len(a))), 1, Len(a)).s1

ShiftLeft(a, n) == a \o Zeros(n)

\* some bit of a after position n is 1
AnyBitAfter(a, n) == \E i \in (n + 1)..Len(a) : a[i] = 1

FloatZero == [ m |-> << >>, e |-> 0 ]

\* the mantissa kept plus one; a carry out of the top bit lengthens it
Float(m, e) ==
    IF Len(m) > MantissaBits
    THEN [ m |-> SubSeq(m, 1, MantissaBits), e |-> e + 1 ]
    ELSE [ m |-> m, e |-> e ]

\* round-half-even of the number p * 2^e (p without leading zeros) to a float
RoundToFloat(p, e) ==
    IF p = << >> THEN FloatZero
    ELSE IF Len(p) <= MantissaBits
    THEN [ m |-> ShiftLeft(p, MantissaBits - Len(p)),
           e |-> e - (MantissaBits - Len(p)) ]
    ELSE IF /\ p[MantissaBits + 1] = 1
            /\ (AnyBitAfter(p, MantissaBits + 1) \/ p[MantissaBits] = 1)
    THEN Float(BitsAdd(SubSeq(p, 1, MantissaBits), << 1 >>),
               e + (Len(p) - MantissaBits))
    ELSE [ m |-> SubSeq(p, 1, MantissaBits), e |-> e + (Len(p) - MantissaBits) ]

RECURSIVE Normalised(_, _, _)
\* the least s with a * 2^s >= t, and a * 2^s
Normalised(a, t, s) ==
    IF a >= t THEN [ r |-> a, s |-> s ] ELSE Normalised(2 * a, t, s + 1)

\* the quotient bits of one stretch of a long division followed by those of
\* the next
div_join(first, rest) == [ q |-> first.q \o rest.q, r |-> rest.r ]

RECURSIVE DivBits(_, _, _)

\* the second half of a stretch, begun with the remainder the first half left
div_rest(first, t, n) == div_join(first, DivBits(first.r, t, n))

\* long division: the next n >= 1 quotient bits of r / t (r < t) and the
\* remainder left
DivBits(r, t, n) ==
    IF n = 1
    THEN (IF 2 * r >= t THEN [ q |-> << 1 >>, r |-> 2 * r - t ]
                        ELSE [ q |-> << 0 >>, r |-> 2 * r ])
    ELSE div_rest(DivBits(r, t, n \div 2), t, n - n \div 2)

\* the quotient's 53 bits d.q, remainder d.r, rounded half-even
div_rounded(d, t, s) ==
    IF 2 * d.r > t \/ (2 * d.r = t /\ d.q[MantissaBits] = 1)
    THEN Float(BitsAdd(d.q, << 1 >>), 0 - s - (MantissaBits - 1))
    ELSE [ m |-> d.q, e |-> 0 - s - (MantissaBits - 1) ]

\* a * 2^s / t lies in [1, 2): its first bit is 1
div_normalised(n, t) ==
    div_rounded(div_join([ q |-> << 1 >>, r |-> n.r - t ],
                         DivBits(n.r - t, t, MantissaBits - 1)), t, n.s)

\* a / b for integers 0 <= a, 0 < b
float_div(a, b) ==
    IF a = 0 THEN FloatZero ELSE div_normalised(Normalised(a, b, 0), b)

\* x * 100.0
float_mul_100(x) ==
    IF x = FloatZero THEN FloatZero
    ELSE RoundToFloat(
           BitsAdd(BitsAdd(ShiftLeft(x.m, 6), ShiftLeft(x.m, 5)),
                   ShiftLeft(x.m, 2)), x.e)

Hundred == << 1, 1, 0, 0, 1, 0, 0 >>

\* 100.0 - x for 0 <= x <= 100
float_100_minus(x) ==
    IF x = FloatZero THEN RoundToFloat(Hundred, 0)
    ELSE RoundToFloat(
           StripZeros(BitsSub(ShiftLeft(Hundred, 0 - x.e), x.m)), x.e)

\* variant: the digits after the first decimal cut off
floor_scaled(t, f) ==
    IF f > Len(t) THEN 0 ELSE BitsToInt(t, Len(t) - f)

\* t * 2^(-f), t a bit sequence, rounded half-even to an integer
round_scaled(t, f) ==
    IF f > Len(t) THEN 0
    ELSE BitsToInt(t, Len(t) - f)
           + (IF /\ t[Len(t) - f + 1] = 1
                 /\ \/ AnyBitAfter(t, Len(t) - f + 1)
                    \/ (f < Len(t) /\ t[Len(t) - f] = 1)
              THEN 1 ELSE 0)

\* round(x, 1) for 0 <= x <= 100, in tenths: the decimal with one digit
\* nearest to x, ties to the even digit
round1(x) ==
    IF x = FloatZero THEN 0
    ELSE round_scaled(BitsAdd(ShiftLeft(x.m, 3), ShiftLeft(x.m, 1)), 0 - x.e)

\* "blocked_rate_pct = (len(blocked_decisions) / total_recent * 100.0) if
\* total_recent > 0 else 0.0"
blocked_rate_float(n_blocked, total_recent) ==
    IF total_recent > 0
    THEN float_mul_100(float_div(n_blocked, total_recent))
    ELSE FloatZero

\* get_trace(limit): "list(self.trace)[-limit:]" with limit in 1..200
get_trace(ring, limit) ==
    LET lim == Max(1, Min(200, limit))
        n   == Len(ring)
    IN  IF lim >= n THEN ring ELSE SubSeq(ring, n - lim + 1, n)

ComponentTypes == { "GRID", "THERMAL", "RAMP", "POLICY", "GNN" }

\* the clip test of the roll-up: "abs(approved) + 1e-9 < abs(proposed)", on an
\* event that carries both values (1e-9 kW is below one unit of 1/Fine)
kpi_clipped(e) ==
    /\ e.proposed_deltaP_kw # None
    /\ e.approved_deltaP_kw # None
    /\ Abs(e.approved_deltaP_kw[1]) < Abs(e.proposed_deltaP_kw[1])

\* compute_trace_kpis over events that all lie inside the window (their ts
\* is the time of the decision, the roll-up is taken within window_s of it);
\* the two percentages in tenths of a per cent, as round(..., 1) leaves them;
\* a breakdown is a function whose domain is the dict's keys
compute_trace_kpis(events) ==
    LET IsSelected(e) == e.rule_id = "APPROVED_DELTA_SELECTED"
        IsBlocked(e) == e.status = "BLOCKED"
        IsPrevented(e) == IsBlocked(e) \/ kpi_clipped(e)
        recent_final == SelectSeq(events, is_final_phase)
        final_decisions == SelectSeq(recent_final, IsSelected)
        decision_ids == { final_decisions[j].decision_id :
                            j \in 1..Len(final_decisions) }
        blocked_decisions ==
            { final_decisions[j].decision_id :
                j \in { i \in 1..Len(final_decisions) :
                          IsBlocked(final_decisions[i]) } }
        blocked_events == SelectSeq(recent_final, IsBlocked)
        total_recent == Cardinality(decision_ids)
        n_blocked == Cardinality(blocked_decisions)
        Idx == 1..Len(blocked_events)
    IN  [ total_recent |-> total_recent,
          blocked_decisions_unique |-> n_blocked,
          blocked_rate_pct |->
              round1(blocked_rate_float(n_blocked, total_recent)),
          unsafe_actions_prevented_total |->
              Len(SelectSeq(final_decisions, IsPrevented)),
          jobs_completed_on_time_pct |->
              round1(float_100_minus(
                         blocked_rate_float(n_blocked, total_recent))),
          by_component |->
              [ c \in { blocked_events[j].component : j \in Idx } |->
                  Cardinality({ j \in Idx : blocked_events[j].component = c }) ],
          by_rule |->
              [ r \in { blocked_events[j].rule_id : j \in Idx } |->
                  Cardinality({ j \in Idx : blocked_events[j].rule_id = r }) ] ]

\* the predictor as decide() and the route see it: svc.gnn is "missing"
\* (None), "not_ready" or "ready"; a call to predict_safe_shift_kw answers
\* Some(kW) or raises (None)
PredictorStates == { "missing", "not_ready", "ready" }

\* "gnn_limit_kw = None; if self.gnn and self.gnn.is_ready(): try: ..."
gnn_limit(predictor, answer) ==
    IF predictor = "ready" THEN answer ELSE None

\* variant: value and threshold of the event exchanged
GnnCapEventSwapped(did, gnn_limit_kw, grid_headroom_kw) ==
    [ decision_id |-> did, phase |-> "final", component |-> "GNN",
      rule_id |-> "GNN_HEADROOM_CAP", status |-> "INFO", severity |-> "LOW",
      value |-> Some(grid_headroom_kw), threshold |-> Some(gnn_limit_kw),
      proposed_deltaP_kw |-> None, approved_deltaP_kw |-> None ]

\* the GNN_HEADROOM_CAP event decide() appends itself
GnnCapEvent(did, gnn_limit_kw, grid_headroom_kw) ==
    [ decision_id |-> did, phase |-> "final", component |-> "GNN",
      rule_id |-> "GNN_HEADROOM_CAP", status |-> "INFO", severity |-> "LOW",
      value |-> Some(gnn_limit_kw), threshold |-> Some(grid_headroom_kw),
      proposed_deltaP_kw |-> None, approved_deltaP_kw |-> None ]

DecisionRecord(did, ts, o, P_site_kw, grid_headroom_kw) ==
    [ decision_id |-> did, ts |-> ts, requested_kw |-> o.requested_deltaP_kw,
      site_load_kw |-> P_site_kw, grid_headroom_kw |-> grid_headroom_kw,
      approved_kw |-> o.approved_deltaP_kw, blocked |-> o.blocked,
      reason_code |-> o.reason, confidence |-> o.confidence,
      primary_constraint |-> o.plan.primary_constraint,
      constraint_value |-> o.plan.constraint_value,
      constraint_threshold |-> o.plan.constraint_threshold,
      n_traces |-> Len(o.trace) ]

\* variant: the plan's last step taken for its first
last_step(plan) == plan.steps[Len(plan.steps)]

\* "first_step = plan.steps[0]"
first_step(plan) == plan.steps[1]

\* "self.therm_state.T_c = ...; self.therm_state.P_cool_kw = ..."
commit_step(st, row) == ThermalTwinState(row.rack_temp_c, row.cooling_kw)

\* decide() from the planner's return on: the step-0 commit, confidence
\* and the outcome; r is build_ramp_plan()'s answer, r.state the live state
\* object (current_state is self.therm_state itself) as the planner left it
decide_outcome(st, did, deltaP_request_kw, effective_headroom, trace0, r) ==
    LET st1 == IF ~r.plan.blocked /\ Len(r.plan.steps) > 0
               THEN commit_step(r.state, first_step(r.plan))
               ELSE r.state
    IN  [ out |-> [ decision_id |-> did,
                    requested_deltaP_kw |-> deltaP_request_kw,
                    approved_deltaP_kw |-> r.approved,
                    blocked |-> r.plan.blocked,
                    reason |-> r.plan.reason,
                    plan |-> r.plan,
                    trace |-> trace0 \o r.trace,
                    effective_headroom |-> effective_headroom,
                    confidence |-> confidence_of(r.plan, r.approved,
                                                 deltaP_request_kw),
                    prediction_debug |-> Some(r.debug) ],
          planner_state |-> r.state,
          state |-> st1,
          candidates |-> r.candidates ]

\* decide(): st is the live thermal state, gnn_limit_kw the predictor's
\* answer (None when there is no ready predictor or it raised).  Returns the
\* outcome and the thermal state after the step-0 commit.
decide(st, did, gnn_limit_kw, deltaP_request_kw, P_site_kw, grid_headroom_kw, horizon_s, dt_s, ramp_rate_kw_per_s) ==
    LET capped == gnn_limit_kw # None /\ gnn_limit_kw[1] < grid_headroom_kw
        effective_headroom == IF capped THEN gnn_limit_kw[1]
                              ELSE grid_headroom_kw
        trace0 == IF capped
                  THEN << GnnCapEvent(did, gnn_limit_kw[1], grid_headroom_kw) >>
                  ELSE << >>
    IN  decide_outcome(st, did, deltaP_request_kw, effective_headroom, trace0,
            build_ramp_plan(P_site_kw, effective_headroom, ThermalTwinConfig,
                            st, deltaP_request_kw, horizon_s, dt_s,
                            ramp_rate_kw_per_s, did))

(***************************************************************************)
(* digital_twin.py: what decide() does with its outcome                    *)
(***************************************************************************)
\* "with Session(engine) as session: ... session.commit()": the record is
\* in the database when the commit succeeds
persist(db_rows, persist_ok, rec) ==
    IF persist_ok THEN Append(db_rows, rec) ELSE db_rows

\* variant: the persistence error leaving decide() before the ring is fed
ring_after_reraise(ring, persist_ok, evs) ==
    IF persist_ok THEN push_trace(ring, evs) ELSE ring

\* "except Exception as ex: print(...)" and then
\* "for e in trace: self.push_trace(DecisionTraceEvent(**e))"
ring_after(ring, persist_ok, evs) == push_trace(ring, evs)

(***************************************************************************)
(* routes_decision.py: GET /decision/latest                                *)
(***************************************************************************)
\* a float query parameter: a number (whole kW), NaN or +infinity
Num(v) == [kind |-> "num", v |-> v]
NaN == [kind |-> "nan", v |-> 0]
Inf == [kind |-> "inf", v |-> 0]

\* variant: Query(le = hi) alone
query_in_range_le(x, lo, hi) == x.kind = "num" /\ x.v <= hi

\* Query(ge = lo, le = hi): every comparison with NaN is false, and
\* +infinity is above every hi
query_in_range(x, lo, hi) == x.kind = "num" /\ lo <= x.v /\ x.v <= hi

\* not (math.isnan(x) or math.isinf(x))
is_finite(x) == x.kind = "num"

\* the declared ranges of the query parameters and the handler's own
\* NaN/Inf check; FALSE: the request ends with status 422
validate_latest(q) ==
    /\ query_in_range(q.deltaP_request_kw, 0 - 5000, 5000)
    /\ query_in_range(Num(q.P_site_kw), 0, 100000)
    /\ q.grid_headroom_kw # None
          => query_in_range(q.grid_headroom_kw[1], 0, 100000)
    /\ 10 <= q.horizon_s /\ q.horizon_s <= 300
    /\ 1 <= q.dt_s /\ q.dt_s <= 10
    /\ 1 <= q.ramp_rate_kw_per_s /\ q.ramp_rate_kw_per_s <= 1000
    /\ is_finite(q.deltaP_request_kw)
    /\ q.grid_headroom_kw # None => is_finite(q.grid_headroom_kw[1])

FallbackHeadroomKW == 1500

\* variant: the predictor asked first, the supplied headroom only a fallback
resolve_headroom_predictor_first(grid_headroom_kw, predictor, answer) ==
    IF predictor = "ready" /\ answer # None
    THEN [source |-> "GNN", kw |-> answer[1]]
    ELSE IF grid_headroom_kw # None
    THEN [source |-> "MANUAL", kw |-> grid_headroom_kw[1].v]
    ELSE [source |-> "FALLBACK", kw |-> FallbackHeadroomKW]

\* "1. Determine Headroom Source": answer is what the predictor's
\* predict_safe_shift_kw does when the route calls it
resolve_headroom(grid_headroom_kw, predictor, answer) ==
    IF grid_headroom_kw # None
    THEN [source |-> "MANUAL", kw |-> grid_headroom_kw[1].v]
    ELSE IF predictor = "ready"
    THEN IF answer # None
         THEN [source |-> "GNN", kw |-> answer[1]]
         ELSE [source |-> "FALLBACK", kw |-> FallbackHeadroomKW]
    ELSE [source |-> "FALLBACK", kw |-> FallbackHeadroomKW]

\* the event the route appends to out["trace"]; message names the source
HeadroomSourceEvent(did, headroom_source, grid_headroom_kw) ==
    [ decision_id |-> did, phase |-> "final", component |-> "API",
      rule_id |-> "HEADROOM_SOURCE", status |-> "INFO", severity |-> "LOW",
      message |-> headroom_source,
      value |-> Some(grid_headroom_kw), threshold |-> None ]

\* DecisionResponse(**out) after the route's append
DecisionResponse(q, h, o) ==
    [ status |-> 200, query |-> q, decision_id |-> o.decision_id,
      requested_deltaP_kw |-> o.requested_deltaP_kw,
      approved_deltaP_kw |-> o.approved_deltaP_kw,
      blocked |-> o.blocked, reason |-> o.reason, plan |-> o.plan,
      trace |-> Append(o.trace,
                  HeadroomSourceEvent(o.decision_id, h.source, h.kw)),
      prediction_debug |-> o.prediction_debug ]

\* HTTPException(status_code = 422) and FastAPI's validation error
Rejected(q) == [ status |-> 422, query |-> q ]

(***************************************************************************)
(* The service as a state machine                                          *)
(***************************************************************************)
MaxDecisions == 1
MaxTicks == 1

\* decide() arguments: deltaP (kW), P_site (kW), grid headroom (kW),
\* horizon_s, dt_s, ramp rate (kW/s)
ZeroHeadroomIn == << 500, 1000, 0, 10, 5, 50 >>
GridClipIn     == << 500, 1000, 100, 10, 3, 50 >>
WithinIn       == << 10, 1000, 1000, 10, 5, 50 >>
RampAuditIn    == << 500, 1000, 1000, 10, 1, 10 >>
ImportIn       == << 0 - 2000, 50000, 20000, 30, 1, 500 >>
FastRampIn     == << 500, 1000, 1000, 10, 5, 200 >>

\* the calls made on the service: arguments, the predictor's state, what
\* its predict_safe_shift_kw does when called (Some(kW), or None: it raises)
\* and whether the database session commits
DecisionCalls ==
    { [ in |-> ZeroHeadroomIn, predictor |-> "missing", gnn |-> None,
        persist_ok |-> TRUE  ],
      [ in |-> GridClipIn, predictor |-> "not_ready", gnn |-> Some(1200),
        persist_ok |-> TRUE  ],
      [ in |-> GridClipIn, predictor |-> "ready", gnn |-> Some(50),
        persist_ok |-> FALSE ],
      [ in |-> WithinIn, predictor |-> "ready", gnn |-> Some(1200),
        persist_ok |-> FALSE ],
      [ in |-> RampAuditIn, predictor |-> "missing", gnn |-> None,
        persist_ok |-> TRUE  ],
      [ in |-> ImportIn, predictor |-> "ready", gnn |-> None,
        persist_ok |-> TRUE  ],
      [ in |-> FastRampIn, predictor |-> "missing", gnn |-> None,
        persist_ok |-> TRUE  ] }

\* routes_demo.py: the three scenarios of run_demo_scenario, as
\* starting T_c, P_cool_kw (1/U) and the decide() arguments, and whether
\* the database session of the run commits
DemoScenarios ==
    [ approved      |-> [ T_c |-> 42 * U, P_cool_kw |-> 800 * U,
                          in |-> << 400, 20000, 5000, 30, 1, 250 >>,
                          persist_ok |-> FALSE ],
      grid_block    |-> [ T_c |-> 42 * U, P_cool_kw |-> 800 * U,
                          in |-> << 1500, 25000, 0, 30, 1, 250 >>,
                          persist_ok |-> TRUE ],
      thermal_block |-> [ T_c |-> (497 * U) \div 10, P_cool_kw |-> 400 * U,
                          in |-> << 0 - 2000, 50000, 20000, 30, 1, 500 >>,
                          persist_ok |-> TRUE ] ]

\* a /decision/latest request: the query, the predictor's state, what its
\* predict_safe_shift_kw does when the route calls it (route_gnn) and when
\* decide() calls it (gnn), and whether the database session commits
LatestQuery(deltaP, headroom, predictor, route_gnn, gnn, persist_ok) ==
    [ deltaP_request_kw |-> deltaP, P_site_kw |-> 1000,
      grid_headroom_kw |-> headroom, horizon_s |-> 10, dt_s |-> 10,
      ramp_rate_kw_per_s |-> 50, predictor |-> predictor,
      route_gnn |-> route_gnn, gnn |-> gnn, persist_ok |-> persist_ok ]

LatestQueries ==
    { LatestQuery(Num(200), Some(Num(300)), "ready", Some(1111), Some(1111), TRUE),
      LatestQuery(Num(500), None, "ready", Some(1111), Some(1111), TRUE),
      LatestQuery(Num(500), None, "not_ready", Some(1200), Some(1200), FALSE),
      LatestQuery(Num(500), None, "ready", None, None, TRUE),
      LatestQuery(Num(1000), None, "ready", None, Some(800), FALSE),
      LatestQuery(NaN, Some(Num(500)), "missing", None, None, TRUE),
      LatestQuery(Inf, Some(Num(500)), "missing", None, None, TRUE),
      LatestQuery(Num(200), Some(NaN), "missing", None, None, TRUE),
      LatestQuery(Num(100000), Some(Num(500)), "missing", None, None, TRUE),
      LatestQuery(Num(200), Some(Inf), "missing", None, None, TRUE),
      LatestQuery(Num(200), Some(Num(0 - 5)), "missing", None, None, TRUE) }

(***************************************************************************)
(* routes_decision.py: decision_recent, with the database reachable;       *)
(* timestamps count half seconds                                           *)
(***************************************************************************)
\* "select(DecisionRecord).order_by(DecisionRecord.ts.desc()).limit(limit)":
\* the rows newest first (no two rows carry the same ts)
recent_records(db_rows, limit) ==
    [ i \in 1..Min(limit, Len(db_rows)) |-> db_rows[Len(db_rows) + 1 - i] ]

\* to_entry(r), and the fields a row of its own gets when coalescing
log_row(r, coalesce) ==
    [ decision_id |-> r.decision_id, ts |-> r.ts,
      requested_kw |-> r.requested_kw, approved_kw |-> r.approved_kw,
      blocked |-> r.blocked, reason_code |-> r.reason_code,
      primary_constraint |-> r.primary_constraint,
      count |-> IF coalesce THEN Some(1) ELSE None,
      first_ts |-> IF coalesce THEN Some(r.ts) ELSE None,
      last_ts |-> IF coalesce THEN Some(r.ts) ELSE None ]

\* the test that lets a blocked entry join the row before it: both blocked,
\* same reason, same primary constraint, requests less than 1e-3 kW apart,
\* and the entry no more than window_s older than the row's last_ts
joins_row(last, entry, window_s) ==
    /\ last.blocked
    /\ last.reason_code = entry.reason_code
    /\ last.primary_constraint = entry.primary_constraint
    /\ Abs(last.requested_kw - entry.requested_kw) * 1000 < Fine
    /\ last.last_ts # None
    /\ Abs(last.last_ts[1] - entry.ts) <= 2 * window_s

\* variant: the row's last_ts moved along with every entry that joins
merged_row_chained(last, entry) ==
    [ last EXCEPT !.count = Some(last.count[1] + 1),
                  !.first_ts = Some(entry.ts), !.last_ts = Some(entry.ts) ]

\* "last.count = (last.count or 1) + 1; last.first_ts = entry.ts"
merged_row(last, entry) ==
    [ last EXCEPT !.count = Some(last.count[1] + 1),
                  !.first_ts = Some(entry.ts) ]

\* the loop body of the coalescing pass
coalesce_step(items, entry, window_s) ==
    IF entry.blocked /\ items # << >>
                     /\ joins_row(items[Len(items)], entry, window_s)
    THEN [ items EXCEPT ![Len(items)] = merged_row(items[Len(items)], entry) ]
    ELSE Append(items, entry)

RECURSIVE coalesce_rows(_, _, _, _)
\* "for r in records", from record i on
coalesce_rows(records, i, items, window_s) ==
    IF i > Len(records)
    THEN items
    ELSE coalesce_rows(records, i + 1,
                       coalesce_step(items, log_row(records[i], TRUE), window_s),
                       window_s)

\* the items of the answer
decision_recent(db_rows, limit, coalesce, window_s) ==
    IF ~coalesce
    THEN [ i \in 1..Len(recent_records(db_rows, limit)) |->
             log_row(recent_records(db_rows, limit)[i], FALSE) ]
    ELSE coalesce_rows(recent_records(db_rows, limit), 1, << >>, window_s)

(***************************************************************************)
(* digital_twin.py: telemetry (the series generator and the tick's         *)
(* snapshot), of a service in deterministic mode with a CarbonService and  *)
(* no ready predictor                                                      *)
(***************************************************************************)
\* DigitalTwinService._demo_seed
demo_seed == 7

\* random.Random(seed_val): the k-th uniform(-15, 15) it hands out, in 1/U kW,
\* a fixed function of the seed and of k
seeded_uniform(seed_val, k) ==
    (((seed_val % 65536) * 7919 + k * 104729) % (30 * U + 1)) - 15 * U

\* CarbonService.get_intensity_g_per_kwh(t): the daily curve at t plus the
\* noise of one draw from the process-wide random module, named by the number
\* of draws taken from it before
get_intensity_g_per_kwh(t, drawn) == [ ts |-> t, draw |-> drawn + 1 ]

\* one point of the series: the state the walk has reached, the point's
\* index and time, its load and its carbon reading
series_point(cfg, st, i, t, it_load, carbon_val, noise, step_size) ==
    LET pred == predict(cfg, st, it_load, step_size)
        dip  == 25 <= i /\ i <= 35
        temp == pred.rack_temp_c_next
        safe == IF temp > cfg.T_max - 2 * U THEN 800 ELSE 1200
    IN  [ ts |-> t,
          frequency_hz |-> [ dip |-> dip, noise |-> noise ],
          it_load_kw |-> it_load,
          total_load_kw |-> it_load + pred.cooling_kw_next,
          safe_shift_kw |-> IF dip THEN Min(safe, 900) ELSE safe,
          carbon_g_per_kwh |-> carbon_val,
          rack_temp_c |-> temp,
          cooling_kw |-> pred.cooling_kw_next ]

RECURSIVE points_from(_, _, _, _, _, _, _, _, _)
\* the points i .. last of the series, the walk standing at st
points_from(cfg, st, i, last, now, window_s, step_size, seed_val, drawn) ==
    IF i > last
    THEN << >>
    ELSE LET t == now - (window_s - i * step_size)
             p == series_point(cfg, st, i, t,
                               1000 * U + seeded_uniform(seed_val, 2 * i + 1),
                               get_intensity_g_per_kwh(t, drawn + i),
                               seeded_uniform(seed_val, 2 * i), step_size)
         IN  << p >> \o points_from(cfg,
                                    ThermalTwinState(p.rack_temp_c, p.cooling_kw),
                                    i + 1, last, now, window_s, step_size,
                                    seed_val, drawn)

\* the walk's state after the points pts
walk_after(st, pts) ==
    IF pts = << >>
    THEN st
    ELSE ThermalTwinState(pts[Len(pts)].rack_temp_c, pts[Len(pts)].cooling_kw)

RECURSIVE series_from(_, _, _, _, _, _, _, _)

\* the ten points pts followed by the rest of the series
series_rest(cfg, i, now, window_s, step_size, seed_val, drawn, pts, st) ==
    pts \o series_from(cfg, walk_after(st, pts), i + 10, now, window_s,
                       step_size, seed_val, drawn)

\* the points i .. 59 of the series, ten at a time
series_from(cfg, st, i, now, window_s, step_size, seed_val, drawn) ==
    IF i >= 60
    THEN << >>
    ELSE series_rest(cfg, i, now, window_s, step_size, seed_val, drawn,
                     points_from(cfg, st, i, i + 9, now, window_s, step_size,
                                 seed_val, drawn), st)

\* svc.get_timeseries(window_s, end_ts, mode = "replay"): st the live thermal
\* state, end_ts in seconds, drawn the draws taken from the process-wide
\* random module so far
get_timeseries(cfg, st, window_s, end_ts, drawn) ==
    LET w == Max(60, window_s)
        step_size == Max(1, w \div 60)
        seed_val == demo_seed + w + end_ts
    IN  series_from(cfg, ThermalTwinState(st.T_c, st.P_cool_kw), 0, end_ts, w, step_size,
                    seed_val, drawn)

\* _compute_latest_telemetry_point_async: the point a tick caches, st being
\* the live state when the point is put together
latest_point(st, current_load, carbon_val) ==
    [ it_load_kw |-> current_load,
      total_load_kw |-> current_load + st.P_cool_kw,
      carbon_g_per_kwh |-> carbon_val,
      rack_temp_c |-> st.T_c,
      cooling_kw |-> st.P_cool_kw ]

\* IT load seen by a tick (1/U kW): the base load, the middle of its noise
TickLoads == { 1000 * U }

\* the wall clock when the service starts, in half seconds
ClockStart == 2000000

VARIABLES
    therm_state,   \* svc.therm_state
    trace,         \* svc.trace, the ring of dumped events
    db,            \* the persisted DecisionRecords, in insertion order
    next_id,       \* decisions made so far + 1 (stands for uuid4)
    ticks,         \* ticks made so far
    call,          \* the last decide(): its arguments and the state it saw
    out,           \* ... the outcome it returned
    candidates,    \* ... every candidate simulation its planner ran
    resp,          \* the answer, if the last operation was GET /decision/latest
    pushed,        \* history: every event handed to push_trace, in order
    made,          \* history: id and blocked flag of every decide() call
    seen,          \* what the last read of the ring returned
    rng_draws,     \* draws taken so far from the process-wide random module
    latest,        \* svc._latest, the telemetry point cached by the last tick
    tick_task,     \* the tick coroutine: where it stands, its load, its step
    served,        \* history: every get_timeseries call and its answer
    clock,         \* wall clock
    last_call_ts,  \* routes_explain._last_call_ts
    explained      \* history: every call of the explain endpoint

\* the telemetry side of the service
telemetry == <<rng_draws, latest, tick_task, served>>

\* the explain endpoint
explain == <<last_call_ts, explained>>

vars == <<therm_state, trace, db, next_id, ticks, call, out, candidates,
          resp, pushed, made, seen, telemetry, clock, explain>>

NoCall == [ op |-> "none" ]

NoResponse == [ status |-> 0 ]

NoRead == [ op |-> "none" ]

NoPoint == [ it_load_kw |-> 0 - 1 ]

Idle == [ pc |-> "idle" ]

Init ==
    /\ therm_state = ThermalTwinState(27 * U, 250 * U)
    /\ trace = << >>
    /\ db = << >>
    /\ next_id = 1
    /\ ticks = 0
    /\ call = NoCall
    /\ out = NoCall
    /\ candidates = << >>
    /\ resp = NoResponse
    /\ pushed = << >>
    /\ made = << >>
    /\ seen = NoRead
    /\ rng_draws = 0
    /\ latest = NoPoint
    /\ tick_task = Idle
    /\ served = << >>
    /\ clock = ClockStart
    /\ last_call_ts = 0
    /\ explained = << >>

\* the run is followed up to its first refused request or its first read of
\* the ring (neither changes the service)
Answering == resp.status # 422 /\ seen.op = "none"

\* decisions are made up to the last counted one
Serving == Answering /\ next_id <= MaxDecisions

\* svc.decide() on live state st with the arguments in (kW, s); ans is what
\* predict_safe_shift_kw does if decide() calls it
DecideCall(st, in, predictor, ans) ==
    decide(st, next_id, gnn_limit(predictor, ans), in[1] * Fine, in[2] * U,
           in[3], in[4], in[5], in[6])

\* what one svc.decide() call leaves behind, d being its answer; the live
\* thermal state is left to the caller
DoDecide(op, st, in, predictor, ans, persist_ok, d) ==
    /\ call' = [ op |-> op, deltaP_request_kw |-> in[1] * Fine,
                 P_site_kw |-> in[2] * U, grid_headroom_kw |-> in[3],
                 horizon_s |-> in[4], dt_s |-> in[5],
                 ramp_rate_kw_per_s |-> in[6], predictor |-> predictor,
                 gnn_limit_kw |-> gnn_limit(predictor, ans),
                 state |-> st, planner_state |-> d.planner_state,
                 state_after |-> d.state,
                 persist_ok |-> persist_ok ]
    /\ out' = d.out
    /\ candidates' = d.candidates
    /\ db' = persist(db, persist_ok,
                     DecisionRecord(next_id, clock, d.out, in[2] * U,
                                    in[3]))
    /\ trace' = ring_after(trace, persist_ok, d.out.trace)
    /\ pushed' = pushed \o d.out.trace
    /\ made' = Append(made, [decision_id |-> next_id, blocked |-> d.out.blocked])
    /\ next_id' = next_id + 1

\* svc.decide() called with validated arguments
Decide ==
    /\ Serving
    /\ \E c \in DecisionCalls :
            /\ DoDecide("decide", therm_state, c.in, c.predictor, c.gnn,
                        c.persist_ok,
                        DecideCall(therm_state, c.in, c.predictor, c.gnn))
            /\ therm_state' = call'.state_after
    /\ resp' = NoResponse
    /\ seen' = NoRead
    /\ UNCHANGED ticks
    /\ UNCHANGED <<telemetry, clock, explain>>

\* routes_demo.py run_demo_scenario: svc.gnn is taken away, the thermal state
\* preset, decide() run, and state and predictor put back in "finally"
DemoScenario ==
    /\ Serving
    /\ \E name \in DOMAIN DemoScenarios :
          LET sc == DemoScenarios[name]
              st == ThermalTwinState(sc.T_c, sc.P_cool_kw)
          IN  DoDecide(name, st, sc.in, "missing", None, sc.persist_ok,
                       DecideCall(st, sc.in, "missing", None))
    /\ resp' = NoResponse
    /\ seen' = NoRead
    /\ UNCHANGED <<therm_state, ticks>>
    /\ UNCHANGED <<telemetry, clock, explain>>

\* the arguments the route hands to svc.decide(): h is the resolved headroom
LatestArgs(q, h) ==
    << q.deltaP_request_kw.v, q.P_site_kw, h.kw, q.horizon_s, q.dt_s,
       q.ramp_rate_kw_per_s >>

\* GET /decision/latest, accepted: headroom resolved, svc.decide() run, the
\* HEADROOM_SOURCE event appended to the outcome's trace
LatestAccepted(q, h) ==
    /\ DoDecide("latest", therm_state, LatestArgs(q, h), q.predictor, q.gnn,
                q.persist_ok,
                DecideCall(therm_state, LatestArgs(q, h), q.predictor, q.gnn))
    /\ therm_state' = call'.state_after
    /\ resp' = DecisionResponse(q, h, out')
    /\ seen' = NoRead
    /\ UNCHANGED ticks
    /\ UNCHANGED <<telemetry, clock, explain>>

\* GET /decision/latest, refused with 422 before the service is reached
LatestRejected(q) ==
    /\ resp' = Rejected(q)
    /\ seen' = NoRead
    /\ UNCHANGED <<therm_state, trace, db, next_id, ticks, call, out,
                   candidates, pushed, made>>
    /\ UNCHANGED <<telemetry, clock, explain>>

\* routes_decision.py decision_latest
DecisionLatest ==
    /\ Answering
    /\ \E q \in LatestQueries :
          IF validate_latest(q)
          THEN /\ Serving
               /\ LatestAccepted(q, resolve_headroom(q.grid_headroom_kw,
                                                     q.predictor, q.route_gnn))
          ELSE LatestRejected(q)

\* svc.tick(dt_s = 1.0) with no demo overlay active and no ready predictor:
\* the tick runs to its end without being suspended
Tick ==
    /\ Serving
    /\ ticks < MaxTicks
    /\ tick_task.pc = "idle"
    /\ \E load \in TickLoads :
          /\ therm_state' = step(ThermalTwinConfig, therm_state, load, 1)
          /\ latest' = latest_point(therm_state', load,
                                    get_intensity_g_per_kwh(clock, rng_draws))
          /\ tick_task' = [ pc |-> "idle", load |-> load,
                            stepped |-> therm_state' ]
    /\ rng_draws' = rng_draws + 1
    /\ ticks' = ticks + 1
    /\ resp' = NoResponse
    /\ seen' = NoRead
    /\ UNCHANGED <<trace, db, next_id, call, out, candidates, pushed, made,
                   served, clock, explain>>

\* routes_demo.py: POST /demo/reset
DemoReset ==
    /\ Serving
    /\ therm_state' = ThermalTwinState(42 * U, 800 * U)
    /\ resp' = NoResponse
    /\ seen' = NoRead
    /\ UNCHANGED <<trace, db, next_id, ticks, call, out, candidates, pushed,
                   made>>
    /\ UNCHANGED <<telemetry, clock, explain>>

\* limits handed to get_trace: below 1, inside 1..200, above 200
TraceLimits == { 0, 60, 1000 }

\* svc.get_trace(limit)
GetTrace ==
    /\ Answering
    /\ \E limit \in TraceLimits :
          seen' = [ op |-> "get_trace", limit |-> limit,
                    events |-> get_trace(trace, limit) ]
    /\ resp' = NoResponse
    /\ UNCHANGED <<therm_state, trace, db, next_id, ticks, call, out,
                   candidates, pushed, made>>
    /\ UNCHANGED <<telemetry, clock, explain>>

\* svc.get_kpi_summary() with no demo price multiplier
GetKpiSummary ==
    /\ Answering
    /\ seen' = [ op |-> "get_kpi_summary", kpis |-> compute_trace_kpis(trace) ]
    /\ resp' = NoResponse
    /\ UNCHANGED <<therm_state, trace, db, next_id, ticks, call, out,
                   candidates, pushed, made>>
    /\ UNCHANGED <<telemetry, clock, explain>>

Next ==
    \/ Decide
    \/ DemoScenario
    \/ DecisionLatest
    \/ Tick
    \/ DemoReset
    \/ GetTrace
    \/ GetKpiSummary

Spec == Init /\ [][Next]_vars

(***************************************************************************)
(* The service followed over a window of decisions, for the KPI roll-up    *)
(***************************************************************************)
\* decisions followed; every decision that reaches the search leaves at least
\* 42 events (20 probes of at least one step), so the ring of 600 holds the
\* final events of 15 decisions at most
MaxWindowDecisions == 10

\* two requests to decide(): one the fresh service approves, one it blocks
\* on the thermal margin (a single 10 s step)
WindowCalls ==
    { [ in |-> WithinIn, predictor |-> "missing", gnn |-> None,
        persist_ok |-> TRUE ],
      [ in |-> << 10, 1000, 1000, 10, 10, 50 >>, predictor |-> "missing",
        gnn |-> None, persist_ok |-> TRUE ] }

\* svc.decide() with one of the window's requests
WindowDecide ==
    /\ Answering
    /\ next_id <= MaxWindowDecisions
    /\ \E c \in WindowCalls :
            /\ DoDecide("decide", therm_state, c.in, c.predictor, c.gnn,
                        c.persist_ok,
                        DecideCall(therm_state, c.in, c.predictor, c.gnn))
            /\ therm_state' = call'.state_after
    /\ resp' = NoResponse
    /\ seen' = NoRead
    /\ UNCHANGED ticks
    /\ UNCHANGED <<telemetry, clock, explain>>

KpiNext == WindowDecide \/ GetKpiSummary

KpiSpec == Init /\ [][KpiNext]_vars

(***************************************************************************)
(* The telemetry side: ticks that wait for the predictor's worker thread,  *)
(* decisions made meanwhile, and calls of the series generator             *)
(***************************************************************************)
\* get_timeseries calls followed
MaxReplays == 2

\* the windows asked for (s) and the replayed end of the window (s)
ReplayWindows == { 900, 3600 }

ReplayEnds == { ClockStart \div 2 - 3600 }

\* svc.tick(dt_s = 1.0) with a ready predictor, up to its await of the
\* predictor's worker thread: the load drawn, the thermal step made, the
\* carbon reading taken
TickBegin ==
    /\ Serving
    /\ ticks < MaxTicks
    /\ tick_task.pc = "idle"
    /\ \E load \in TickLoads :
          /\ therm_state' = step(ThermalTwinConfig, therm_state, load, 1)
          /\ tick_task' = [ pc |-> "awaiting", load |-> load,
                            stepped |-> therm_state',
                            carbon |-> get_intensity_g_per_kwh(clock, rng_draws) ]
    /\ rng_draws' = rng_draws + 1
    /\ ticks' = ticks + 1
    /\ resp' = NoResponse
    /\ seen' = NoRead
    /\ UNCHANGED <<trace, db, next_id, call, out, candidates, pushed, made,
                   latest, served, clock, explain>>

\* ... and from the worker thread's answer on: the point put together from
\* the live state and cached
TickEnd ==
    /\ tick_task.pc = "awaiting"
    /\ latest' = latest_point(therm_state, tick_task.load, tick_task.carbon)
    /\ tick_task' = [ tick_task EXCEPT !.pc = "idle" ]
    /\ UNCHANGED <<therm_state, trace, db, next_id, ticks, call, out,
                   candidates, resp, pushed, made, seen, rng_draws, served,
                   clock, explain>>

\* svc.get_timeseries(window_s, end_ts, mode = "replay")
GetTimeseries ==
    /\ Answering
    /\ Len(served) < MaxReplays
    /\ \E w \in ReplayWindows, e \in ReplayEnds :
          served' = Append(served,
                           [ window_s |-> w, end_ts |-> e,
                             series |-> get_timeseries(ThermalTwinConfig,
                                                       therm_state, w, e,
                                                       rng_draws) ])
    /\ rng_draws' = rng_draws + 60
    /\ resp' = NoResponse
    /\ seen' = NoRead
    /\ UNCHANGED <<therm_state, trace, db, next_id, ticks, call, out,
                   candidates, pushed, made, latest, tick_task, clock,
                   explain>>

TelemetryNext ==
    \/ Tick
    \/ TickBegin
    \/ TickEnd
    \/ Decide
    \/ GetTimeseries

TelemetrySpec == Init /\ [][TelemetryNext]_vars

(***************************************************************************)
(* routes_explain.py: the explain endpoint and its cooldown; the wall      *)
(* clock counts half seconds                                               *)
(***************************************************************************)
\* half seconds followed after the start, calls of the endpoint followed
MaxElapsed == 8
MaxExplainCalls == 4

\* 1.5 s
Cooldown == 3

\* the evidence a decision payload offers to _heuristic_fallback
Evidence == { "constraint", "thresholds", "rules", "none" }

\* llm_explainer.explain_decision: llm says whether the model answered
explain_decision(evidence, llm) ==
    IF llm
    THEN [ confidence |-> 85, from_llm |-> TRUE ]
    ELSE [ confidence |-> CASE evidence = "constraint" -> 85
                            [] evidence = "thresholds" -> 72
                            [] evidence = "rules" -> 65
                            [] OTHER -> 55,
           from_llm |-> FALSE ]

\* now - _last_call_ts < 1.5
rate_limited(now, last) == now - last < Cooldown

\* variant: every call restarting the cooldown
cooldown_restarted(now, last) == now

\* _last_call_ts after a call made at now
cooldown_after(now, last) == IF rate_limited(now, last) THEN last ELSE now

\* time passes
ExplainPass ==
    /\ clock < ClockStart + MaxElapsed
    /\ clock' = clock + 1
    /\ UNCHANGED <<therm_state, trace, db, next_id, ticks, call, out,
                   candidates, resp, pushed, made, seen, telemetry, explain>>

\* POST /explain/decision
ExplainDecision ==
    /\ Len(explained) < MaxExplainCalls
    /\ \E evidence \in Evidence, llm \in BOOLEAN :
          explained' =
              Append(explained,
                     IF rate_limited(clock, last_call_ts)
                     THEN [ ts |-> clock, report |-> FALSE, explainer |-> FALSE,
                            cause |-> "POLICY/RAMP", confidence |-> 0,
                            from_llm |-> FALSE ]
                     ELSE [ ts |-> clock, report |-> TRUE, explainer |-> TRUE,
                            cause |-> "from reason",
                            confidence |-> explain_decision(evidence, llm).confidence,
                            from_llm |-> explain_decision(evidence, llm).from_llm ])
    /\ last_call_ts' = cooldown_after(clock, last_call_ts)
    /\ UNCHANGED <<therm_state, trace, db, next_id, ticks, call, out,
                   candidates, resp, pushed, made, seen, telemetry, clock>>

ExplainNext == ExplainPass \/ ExplainDecision

ExplainSpec == Init /\ [][ExplainNext]_vars

(***************************************************************************)
(* The planner under heavier site loads                                    *)
(***************************************************************************)
\* site loads (kW), time steps (s) and requests (kW) of the calls made
SiteLoads == { 1000, 2000, 3000, 5000 }

SiteSteps == { 1, 2, 5 }

SiteRequests == { 10, 500 }

\* svc.decide() over a 10 s horizon with 1000 kW of headroom
SiteDecide ==
    /\ Serving
    /\ \E P \in SiteLoads, dt \in SiteSteps, req \in SiteRequests :
            /\ DoDecide("decide", therm_state, << req, P, 1000, 10, dt, 10 >>,
                        "missing", None, TRUE,
                        DecideCall(therm_state, << req, P, 1000, 10, dt, 10 >>,
                                   "missing", None))
            /\ therm_state' = call'.state_after
    /\ resp' = NoResponse
    /\ seen' = NoRead
    /\ UNCHANGED ticks
    /\ UNCHANGED <<telemetry, clock, explain>>

SiteNext == SiteDecide \/ Tick \/ DemoReset

SiteSpec == Init /\ [][SiteNext]_vars

(***************************************************************************)
(* The decision log: decisions made as time passes, and reads of the log   *)
(***************************************************************************)
\* decisions followed, and stretches of time between them
MaxLogDecisions == 4
MaxLogSteps == 4

\* the time that passes in one stretch: 5 s or 10 s
LogGaps == { 10, 20 }

\* requests to decide(): one the fresh service approves, one it blocks on
\* the thermal margin, one blocked for want of headroom
LogCalls ==
    { WithinIn, << 10, 1000, 1000, 10, 10, 50 >>, ZeroHeadroomIn }

\* limit, and window_s, of a read
LogLimits == { 2, 60 }

LogWindows == { 10, 90 }

\* time passes
LogPass ==
    /\ Answering
    /\ clock - ClockStart < 10 * MaxLogSteps
    /\ \E gap \in LogGaps : clock' = clock + gap
    /\ UNCHANGED <<therm_state, trace, db, next_id, ticks, call, out,
                   candidates, resp, pushed, made, seen, telemetry, explain>>

\* svc.decide(), later than the decision before it
LogDecide ==
    /\ Answering
    /\ next_id <= MaxLogDecisions
    /\ IF db = << >> THEN TRUE ELSE db[Len(db)].ts < clock
    /\ \E in \in LogCalls :
            /\ DoDecide("decide", therm_state, in, "missing", None, TRUE,
                        DecideCall(therm_state, in, "missing", None))
            /\ therm_state' = call'.state_after
    /\ resp' = NoResponse
    /\ seen' = NoRead
    /\ UNCHANGED ticks
    /\ UNCHANGED <<telemetry, clock, explain>>

\* GET /decision/recent
DecisionRecent ==
    /\ Answering
    /\ \E limit \in LogLimits, coalesce \in BOOLEAN, window_s \in LogWindows :
          seen' = [ op |-> "decision_recent", coalesce |-> coalesce,
                    window_s |-> window_s,
                    records |-> recent_records(db, limit),
                    items |-> decision_recent(db, limit, coalesce, window_s) ]
    /\ resp' = NoResponse
    /\ UNCHANGED <<therm_state, trace, db, next_id, ticks, call, out,
                   candidates, pushed, made, telemetry, clock, explain>>

LogNext == LogPass \/ LogDecide \/ DecisionRecent

LogSpec == Init /\ [][LogNext]_vars

(***************************************************************************)
(* Properties of the planner and the orchestrator                          *)
(***************************************************************************)
Decided == call.op # "none"

\* every step row of every candidate simulation of the last decision
CandidateRows ==
    { << k, i >> \in (1..Len(candidates)) \X (1..30) :
        i <= Len(candidates[k].steps) }

\* C1: the approved delta-P of every returned plan lies, in magnitude,
\* between 0 and min(|request|, max(0, headroom)), where headroom is the
\* effective headroom decide() handed to the planner (never more than the
\* headroom supplied to decide()).
ApprovedWithinCap ==
    Decided =>
        LET approved == out.approved_deltaP_kw
            bound == Min(Abs(call.deltaP_request_kw),
                         ToFine(Max(0, out.effective_headroom)))
        IN  /\ out.plan.approved_deltaP_kw = approved
            /\ 0 <= Abs(approved)
            /\ Abs(approved) <= bound
            /\ out.effective_headroom <= call.grid_headroom_kw

\* a positive approval of a request above the headroom the predictor left
ClippedToPredictedHeadroom ==
    /\ Decided
    /\ call.gnn_limit_kw # None
    /\ out.effective_headroom < call.grid_headroom_kw
    /\ call.deltaP_request_kw > ToFine(out.effective_headroom)
    /\ out.approved_deltaP_kw > 0

\* C2: when the approved delta-P is positive, every step of the plan has
\* rack_temp_c < T_max and T_max - rack_temp_c >= 0.5.
ApprovedPlanKeepsMargin ==
    (Decided /\ out.approved_deltaP_kw > 0) =>
        \A i \in 1..Len(out.plan.steps) :
            /\ out.plan.steps[i].rack_temp_c < ThermalTwinConfig.T_max
            /\ ThermalTwinConfig.T_max - out.plan.steps[i].rack_temp_c
                   >= U \div 2

\* a positive approval that the thermal gates cut short: some probe failed,
\* and the plan comes within one degree of T_max
ThermallyLimitedApproval ==
    /\ Decided
    /\ out.approved_deltaP_kw > 0
    /\ \E k \in 1..Len(candidates) : ~candidates[k].ok
    /\ \E i \in 1..Len(out.plan.steps) :
          ThermalTwinConfig.T_max - out.plan.steps[i].rack_temp_c < U

\* C3: a negative (import) request is searched by magnitude against the
\* headroom and the gates, and the near-limit import scenario (T_c = 49.7,
\* P_cool = 400, request -2000, P_site 50000, headroom 20000) ends blocked
\* with reason THERMAL_BLOCKED and primary constraint THERMAL.
ImportSearchedByMagnitude ==
    (Decided /\ call.deltaP_request_kw < 0 /\ out.effective_headroom > 0) =>
        /\ Len(candidates) > 0
        /\ (call.op = "thermal_block" =>
               /\ out.blocked
               /\ out.reason = "THERMAL_BLOCKED"
               /\ out.plan.primary_constraint = Some("THERMAL"))

\* the events of the last decision's trace with a given rule_id
EventsOf(rule_id) ==
    { j \in 1..Len(out.trace) : out.trace[j].rule_id = rule_id }

\* min(req, headroom) as the planner of the last decision formed it
PlannerCap ==
    Min(Max(0, call.deltaP_request_kw), ToFine(Max(0, out.effective_headroom)))

\* the search ran and no probed magnitude failed a gate
AllProbesPassed ==
    /\ Decided
    /\ Len(candidates) > 0
    /\ \A k \in 1..Len(candidates) : candidates[k].ok

\* C4: a positive request with grid headroom <= 0 gives approved = 0,
\* blocked, reason GRID_HEADROOM_ZERO and primary_constraint GRID, with no
\* candidate simulation and exactly one GRID_HEADROOM_ZERO event, of status
\* BLOCKED.
ZeroHeadroomBlockedByGrid ==
    (Decided /\ call.deltaP_request_kw > 0 /\ out.effective_headroom <= 0) =>
        /\ out.approved_deltaP_kw = 0
        /\ out.blocked
        /\ out.reason = "GRID_HEADROOM_ZERO"
        /\ out.plan.primary_constraint = Some("GRID")
        /\ candidates = << >>
        /\ Cardinality(EventsOf("GRID_HEADROOM_ZERO")) = 1
        /\ \A j \in EventsOf("GRID_HEADROOM_ZERO") :
              out.trace[j].status = "BLOCKED"

\* C5 as stated: when no gate fails for any probed magnitude, the approved
\* delta-P equals min(request, headroom).
ApprovedEqualsCap ==
    AllProbesPassed => out.approved_deltaP_kw = PlannerCap

\* C5: when no gate fails for any probed magnitude, the approved delta-P is
\* the last midpoint of the bisection, cap * (1 - 2^-20) with
\* cap = min(request, headroom): below the cap by less than 1e-3 kW for the
\* caps used here; the plan is not blocked, and the trace holds a
\* GRID_HEADROOM_REDUCED_ACTION event exactly when the request exceeds the
\* headroom.
ApprovedIsLastMidpoint ==
    AllProbesPassed =>
        /\ out.approved_deltaP_kw = PlannerCap - PlannerCap \div 2^20
        /\ PlannerCap - out.approved_deltaP_kw < Fine \div 1000
        /\ ~out.blocked
        /\ (EventsOf("GRID_HEADROOM_REDUCED_ACTION") # {}
              <=> PlannerCap < call.deltaP_request_kw)

\* 500 kW requested against 100 kW of headroom, every probe passing
GridClipApproved ==
    /\ AllProbesPassed
    /\ call.deltaP_request_kw = 500 * Fine
    /\ call.gnn_limit_kw = None
    /\ out.effective_headroom = 100
    /\ EventsOf("GRID_HEADROOM_REDUCED_ACTION") # {}

BlockedOutcomeFullyEncoded ==
    Decided =>
        IF out.plan.blocked
        THEN /\ out.plan.approved_deltaP_kw = 0
             /\ out.plan.reason # "OK"
             /\ out.plan.primary_constraint # None
        ELSE /\ out.plan.reason = "OK"
             /\ out.plan.primary_constraint = None

WithinLimits(T_c, P_cool_kw) ==
    /\ ThermalTwinConfig.Cooling_Min_KW <= P_cool_kw
    /\ P_cool_kw <= ThermalTwinConfig.Cooling_Max_KW
    /\ T_c >= ThermalTwinConfig.T_min

\* C8: after every twin step (every tick, every committed decision, every
\* step of every candidate simulation) Cooling_Min_KW <= P_cool_kw <=
\* Cooling_Max_KW and T_c >= T_min.
ThermalStateWithinLimits ==
    /\ WithinLimits(therm_state.T_c, therm_state.P_cool_kw)
    /\ Decided => WithinLimits(call.state_after.T_c,
                               call.state_after.P_cool_kw)
    /\ \A r \in CandidateRows :
          WithinLimits(candidates[r[1]].steps[r[2]].rack_temp_c,
                       candidates[r[1]].steps[r[2]].cooling_kw)

\* a committed decision that left the actuator on its lower limit
CommittedAtCoolingMin ==
    /\ Decided
    /\ call.state_after # call.state
    /\ therm_state = call.state_after
    /\ therm_state.P_cool_kw = ThermalTwinConfig.Cooling_Min_KW

\* cooling power before step i of candidate k
CoolingBefore(k, i) ==
    IF i = 1 THEN call.state.P_cool_kw
    ELSE candidates[k].steps[i - 1].cooling_kw

\* the steps of every candidate simulation, from the state decide() saw
PlanCoolingRampLimited ==
    \A r \in CandidateRows :
        Abs(candidates[r[1]].steps[r[2]].cooling_kw - CoolingBefore(r[1], r[2]))
            <= ThermalTwinConfig.Cooling_Ramp_Max * call.dt_s

\* a tick (dt = 1 s) or the commit of a decision (dt = its dt_s)
LiveCoolingRampLimited ==
    /\ ticks' # ticks =>
          Abs(therm_state'.P_cool_kw - therm_state.P_cool_kw)
              <= ThermalTwinConfig.Cooling_Ramp_Max
    /\ (next_id' # next_id /\ call'.op = "decide") =>
          Abs(therm_state'.P_cool_kw - therm_state.P_cool_kw)
              <= ThermalTwinConfig.Cooling_Ramp_Max * call'.dt_s

DeltaBefore(k, i) ==
    IF i = 1 THEN 0 ELSE candidates[k].steps[i - 1].proposed_deltaP_kw

\* the steps at which the ramp-rate limit binds while error remains
RampLimitedRows ==
    { r \in CandidateRows :
        LET row  == candidates[r[1]].steps[r[2]]
            prev == DeltaBefore(r[1], r[2])
        IN  /\ Abs(row.proposed_deltaP_kw - prev)
                 >= call.ramp_rate_kw_per_s * call.dt_s * Fine
            /\ Abs(candidates[r[1]].desired_kw - prev) > Eps6 }

\* C10: in every candidate simulation the proposed delta-P starts from 0 and
\* changes by at most ramp_rate_kw_per_s * dt_s per step; there is one
\* RAMP_RATE_LIMIT event, of status INFO, for each step at which the limit
\* binds while error to the target remains; the audit request (500 kW, ramp
\* rate 10, horizon 10, dt 1) produces more than one such event.
DeltaPRampLimited ==
    Decided =>
        /\ \A r \in CandidateRows :
              Abs(candidates[r[1]].steps[r[2]].proposed_deltaP_kw
                    - DeltaBefore(r[1], r[2]))
                 <= call.ramp_rate_kw_per_s * call.dt_s * Fine
        /\ Cardinality(EventsOf("RAMP_RATE_LIMIT")) = Cardinality(RampLimitedRows)
        /\ \A j \in EventsOf("RAMP_RATE_LIMIT") :
              /\ out.trace[j].status = "INFO"
              /\ out.trace[j].component = "RAMP"
        /\ (call.deltaP_request_kw = 500 * Fine /\ call.ramp_rate_kw_per_s = 10
              /\ call.dt_s = 1 /\ call.horizon_s = 10
              /\ out.effective_headroom = 1000)
           => Cardinality(EventsOf("RAMP_RATE_LIMIT")) > 1

\* the audit request decided, with steps where the limit binds
RampAuditDecided ==
    /\ Decided
    /\ call.deltaP_request_kw = 500 * Fine
    /\ call.ramp_rate_kw_per_s = 10
    /\ call.dt_s = 1
    /\ call.horizon_s = 10
    /\ Cardinality(RampLimitedRows) > 1

\* the thermal state a row of a plan or of a candidate simulation records
RowState(row) == ThermalTwinState(row.rack_temp_c, row.cooling_kw)

\* C11: build_ramp_plan leaves the caller's thermal state as it found it,
\* whatever the outcome: after the call the state object handed in has the
\* T_c and P_cool_kw it had before, and every candidate simulation starts
\* from those values (its first row is one twin step from them).
PlannerLeavesStateUntouched ==
    Decided =>
        /\ call.planner_state = call.state
        /\ \A k \in 1..Len(candidates) :
              Len(candidates[k].steps) > 0 =>
                  RowState(candidates[k].steps[1])
                    = step(ThermalTwinConfig, call.state,
                           call.P_site_kw
                             + candidates[k].steps[1].proposed_deltaP_kw
                                 \div FinePerU,
                           call.dt_s)

\* a search with failed and passed candidates whose simulated twins moved
\* away from the state handed in
SimulationsMovedTheirCopies ==
    /\ Decided
    /\ \E k \in 1..Len(candidates) : ~candidates[k].ok
    /\ \E k \in 1..Len(candidates) :
          /\ candidates[k].ok
          /\ Len(candidates[k].steps) > 1
          /\ RowState(candidates[k].steps[Len(candidates[k].steps)])
                # call.state
    /\ call.planner_state = call.state

\* operations that run decide() on the live thermal state and keep its commit
LiveOps == { "decide", "latest" }

\* what decide() leaves in the thermal state it was given
StateAfterIsStepZero ==
    Decided =>
        call.state_after =
            IF ~out.plan.blocked /\ Len(out.plan.steps) > 0
            THEN RowState(out.plan.steps[1])
            ELSE call.state

\* a decision on the live state: the state it saw and the state it leaves
LiveStateCommitted ==
    (next_id' # next_id /\ call'.op \in LiveOps) =>
        /\ call'.state = therm_state
        /\ therm_state' = call'.state_after

\* C12: decide commits exactly the first plan step: when the plan is not
\* blocked and has a step, the live T_c and P_cool_kw become those of step 0;
\* when it is blocked or has no step, the live thermal state is left as it
\* was.
CommitsFirstStepOnly ==
    []StateAfterIsStepZero /\ [][LiveStateCommitted]_vars

\* a live decision that committed step 0 of a plan whose later steps differ
CommittedStepZero ==
    /\ Decided
    /\ call.op \in LiveOps
    /\ ~out.plan.blocked
    /\ Len(out.plan.steps) > 1
    /\ therm_state = RowState(out.plan.steps[1])
    /\ therm_state # call.state
    /\ RowState(out.plan.steps[Len(out.plan.steps)]) # therm_state

\* the headroom the planner of the last decision was handed, as its
\* GRID_HEADROOM_CLAMP event records it
PlannedAgainst(kw) ==
    /\ Cardinality(EventsOf("GRID_HEADROOM_CLAMP")) = 1
    /\ \A j \in EventsOf("GRID_HEADROOM_CLAMP") :
          out.trace[j].threshold = Some(Max(0, kw))

\* C13: when the predictor is ready and answers less than the supplied grid
\* headroom, decide plans against the predictor's value, emits exactly one
\* GNN_HEADROOM_CAP event (component GNN, status INFO, value the predictor's
\* value, threshold the supplied headroom) and approves no more than the
\* predictor's value; when the predictor is not ready there is no
\* GNN_HEADROOM_CAP event and the supplied headroom is used.
PredictorCapsHeadroom ==
    Decided =>
        /\ (call.predictor = "ready" /\ call.gnn_limit_kw # None
              /\ call.gnn_limit_kw[1] < call.grid_headroom_kw) =>
              /\ out.effective_headroom = call.gnn_limit_kw[1]
              /\ PlannedAgainst(call.gnn_limit_kw[1])
              /\ Cardinality(EventsOf("GNN_HEADROOM_CAP")) = 1
              /\ \A j \in EventsOf("GNN_HEADROOM_CAP") :
                    /\ out.trace[j].component = "GNN"
                    /\ out.trace[j].status = "INFO"
                    /\ out.trace[j].value = call.gnn_limit_kw
                    /\ out.trace[j].threshold = Some(call.grid_headroom_kw)
              /\ out.approved_deltaP_kw <= ToFine(call.gnn_limit_kw[1])
        /\ call.predictor # "ready" =>
              /\ EventsOf("GNN_HEADROOM_CAP") = {}
              /\ out.effective_headroom = call.grid_headroom_kw
              /\ PlannedAgainst(call.grid_headroom_kw)

\* a ready predictor answering below the supplied headroom, and a request
\* above its answer
PredictorCapEmitted ==
    /\ Decided
    /\ call.predictor = "ready"
    /\ call.gnn_limit_kw # None
    /\ call.gnn_limit_kw[1] < call.grid_headroom_kw
    /\ call.deltaP_request_kw > ToFine(call.gnn_limit_kw[1])
    /\ EventsOf("GNN_HEADROOM_CAP") # {}

\* the last operation was an accepted GET /decision/latest
Answered == resp.status = 200

\* the HEADROOM_SOURCE events of the response's trace
SourceEvents ==
    { j \in 1..Len(resp.trace) : resp.trace[j].rule_id = "HEADROOM_SOURCE" }

PredictorRaisedInDecide ==
    Decided /\ call.predictor = "ready" /\ call.gnn_limit_kw = None

\* the predictor was ready and raised when the route asked it for a headroom
PredictorRaisedInRoute ==
    /\ Answered
    /\ resp.query.grid_headroom_kw = None
    /\ resp.query.predictor = "ready"
    /\ resp.query.route_gnn = None

\* C15: when the predictor raises while a decision is made, a normal decision
\* comes back, computed with the supplied or fallback headroom, the trace
\* names FALLBACK as the headroom source, and the outcome carries no
\* prediction_debug.
PredictorFailureLeavesNoDebug ==
    /\ PredictorRaisedInDecide =>
          /\ out.effective_headroom = call.grid_headroom_kw
          /\ EventsOf("GNN_HEADROOM_CAP") = {}
          /\ out.prediction_debug = None
    /\ PredictorRaisedInRoute =>
          /\ call.grid_headroom_kw = 1500
          /\ \E j \in SourceEvents : resp.trace[j].message = "FALLBACK"
          /\ resp.prediction_debug = None

\* the last n elements of s, all of s when it has no more than n
MostRecent(s, n) == SubSeq(s, Max(1, Len(s) - n + 1), Len(s))

\* a decision is being made whose DecisionRecord / TraceRecord write raises
PersistenceFails == next_id' # next_id /\ ~call'.persist_ok

\* what such a decision leaves behind
FailedWriteLeavesDecisionIntact ==
    PersistenceFails =>
        /\ out' = decide(call'.state, next_id, call'.gnn_limit_kw,
                         call'.deltaP_request_kw, call'.P_site_kw,
                         call'.grid_headroom_kw, call'.horizon_s, call'.dt_s,
                         call'.ramp_rate_kw_per_s).out
        /\ db' = db
        /\ trace' = MostRecent(trace \o out'.trace, 600)
        /\ call'.op \in LiveOps =>
              therm_state' = IF ~out'.plan.blocked /\ Len(out'.plan.steps) > 0
                             THEN RowState(out'.plan.steps[1])
                             ELSE therm_state

\* C16: a failing write of the DecisionRecord or of a TraceRecord does not
\* touch the decision: decide returns the outcome it returns on success, the
\* step-0 commit to the live thermal state stays, and the decision's trace
\* events are published to the in-memory ring all the same (nothing is
\* stored).
PersistenceFailureIsolated == [][FailedWriteLeavesDecisionIntact]_vars

\* a decision whose write failed: step 0 committed, events in the ring,
\* nothing stored
FailedWriteCommittedAndPublished ==
    /\ Decided
    /\ ~call.persist_ok
    /\ call.op \in LiveOps
    /\ ~out.blocked
    /\ call.state_after = RowState(out.plan.steps[1])
    /\ call.state_after # call.state
    /\ Len(out.trace) > 0
    /\ MostRecent(trace, Len(out.trace)) = out.trace
    /\ \A j \in 1..Len(db) : db[j].decision_id # out.decision_id

\* a float argument that is NaN, infinite or outside [lo, hi]
Unacceptable(x, lo, hi) == x.kind # "num" \/ x.v < lo \/ x.v > hi

\* a request the documented ranges and the finiteness rule refuse
InvalidRequest(q) ==
    \/ Unacceptable(q.deltaP_request_kw, 0 - 5000, 5000)
    \/ q.grid_headroom_kw # None
          /\ Unacceptable(q.grid_headroom_kw[1], 0, 100000)
    \/ q.P_site_kw < 0 \/ q.P_site_kw > 100000
    \/ q.horizon_s < 10 \/ q.horizon_s > 300
    \/ q.dt_s < 1 \/ q.dt_s > 10
    \/ q.ramp_rate_kw_per_s < 1 \/ q.ramp_rate_kw_per_s > 1000

\* an invalid request is answered 422, a valid one 200
InvalidIffRefused ==
    resp.status # 0 => (resp.status = 422 <=> InvalidRequest(resp.query))

\* answering 422 is all that a refusal does
RefusalTouchesNothing ==
    (resp'.status = 422 /\ resp.status # 422) =>
        UNCHANGED <<therm_state, trace, db, next_id, call, out, candidates>>

\* C17: a /decision/latest request whose deltaP_request_kw or
\* grid_headroom_kw is NaN or infinite, or whose arguments lie outside the
\* documented ranges, is answered 422 before the planner is reached: decide
\* is not called, and the live thermal state, the trace ring and the stored
\* records stay as they were.
InvalidRequestRefused == []InvalidIffRefused /\ [][RefusalTouchesNothing]_vars

\* deltaP_request_kw = 100000 refused after a decision had moved the live
\* state, fed the ring and stored a record
OutOfRangeRefusedAfterDecision ==
    /\ resp.status = 422
    /\ resp.query.deltaP_request_kw = Num(100000)
    /\ Decided /\ next_id = out.decision_id + 1
    /\ therm_state = call.state_after /\ therm_state # call.state
    /\ Len(trace) > 0 /\ Len(db) > 0

\* the ring against the history of everything pushed
RingHoldsMostRecent ==
    /\ Len(trace) <= 600
    /\ trace = MostRecent(pushed, 600)

\* what a get_trace(limit) call returned, against the ring it read
ReadReturnsTail ==
    seen.op = "get_trace" =>
        seen.events =
            MostRecent(trace, Min(Max(1, Min(200, seen.limit)), Len(trace)))

\* C18: the trace ring never holds more than 600 events and keeps insertion
\* order: it contains the most recent min(600, pushed) events in the order
\* pushed, the oldest evicted first, and get_trace(limit) returns the last
\* min(max(1, min(200, limit)), size) of them in that order.
RingBoundedAndOrdered == RingHoldsMostRecent /\ ReadReturnsTail

\* more than 600 events pushed, the oldest evicted, and a get_trace(1000)
\* answered with the newest 200
EvictedAndReadCapped ==
    /\ Len(pushed) > 600
    /\ Len(trace) = 600
    /\ trace[1] = pushed[Len(pushed) - 599]
    /\ seen.op = "get_trace"
    /\ seen.limit = 1000
    /\ Len(seen.events) = 200
    /\ seen.events[200] = pushed[Len(pushed)]

\* the decisions made so far that came out blocked
BlockedMade == { j \in 1..Len(made) : made[j].blocked }

\* C19: the KPI roll-up counts decisions completely: with every event of the
\* decisions made still in the ring and inside the window, total_recent is
\* the number of decisions made, every blocked decision (zero grid headroom
\* included) is counted in blocked_decisions_unique, and blocked_rate_pct is
\* 100 * blocked_unique / total_recent (0 when total_recent = 0), here in
\* tenths of a per cent.
KpiCountsEveryDecision ==
    (seen.op = "get_kpi_summary" /\ trace = pushed) =>
        /\ seen.kpis.total_recent = Len(made)
        /\ seen.kpis.blocked_decisions_unique = Cardinality(BlockedMade)
        /\ seen.kpis.blocked_rate_pct =
              IF Len(made) = 0 THEN 0
              ELSE (1000 * Cardinality(BlockedMade)) \div Len(made)

\* the candidate simulations of the last decision that failed a gate; when
\* the decision was approved each of them is a discarded probe
FailedProbes == { k \in 1..Len(candidates) : ~candidates[k].ok }

\* the BLOCKED events of rule r emitted inside failed probes
FailedProbeBlocks(r) ==
    UNION { { << k, j >> :
                j \in { i \in 1..Len(candidates[k].events) :
                          /\ candidates[k].events[i].status = "BLOCKED"
                          /\ candidates[k].events[i].rule_id = r } } :
            k \in FailedProbes }

\* the BLOCKED events of rule r in the ring
RingBlocks(r) ==
    { j \in 1..Len(trace) :
        trace[j].status = "BLOCKED" /\ trace[j].rule_id = r }

\* C20: events produced inside discarded candidate simulations of the binary
\* search carry phase "candidate", and the breakdown by_rule (like
\* by_component) counts only BLOCKED events of the final phase, so the
\* BLOCKED events of discarded probes do not contribute to the roll-up.
DiscardedProbesKeptOutOfRollup ==
    (Decided /\ ~out.blocked) =>
        /\ \A k \in FailedProbes :
              \A j \in 1..Len(candidates[k].events) :
                  candidates[k].events[j].phase = "candidate"
        /\ (seen.op = "get_kpi_summary" /\ trace = out.trace) =>
              \A r \in DOMAIN seen.kpis.by_rule :
                  seen.kpis.by_rule[r] =
                      Cardinality(RingBlocks(r))
                          - Cardinality(FailedProbeBlocks(r))

\* C21: for a non-empty window of trace events the reported
\* jobs_completed_on_time_pct and blocked_rate_pct, each as returned after
\* rounding to one decimal, sum to 100 (1000 tenths of a per cent).
KpiPercentagesSumToHundred ==
    (seen.op = "get_kpi_summary" /\ Len(trace) > 0) =>
        seen.kpis.blocked_rate_pct + seen.kpis.jobs_completed_on_time_pct
            = 1000

\* one decision in three blocked: 33.3 and 66.7 reported
ThirdBlockedReported ==
    /\ seen.op = "get_kpi_summary"
    /\ seen.kpis.total_recent = 3
    /\ seen.kpis.blocked_decisions_unique = 1
    /\ seen.kpis.blocked_rate_pct = 333
    /\ seen.kpis.jobs_completed_on_time_pct = 667

(***************************************************************************)
(* Telemetry, the explain endpoint, the decision log                       *)
(***************************************************************************)
\* C22: two get_timeseries calls with the same window_s and end_ts (replay
\* mode, deterministic service) return the same series, whatever ticks,
\* decisions or other telemetry calls were made between them
ReplayRepeats ==
    \A a, b \in 1..Len(served) :
        (served[a].window_s = served[b].window_s
            /\ served[a].end_ts = served[b].end_ts)
        => served[a].series = served[b].series

\* C23: a tick is never interleaved with a decision's step-0 commit: the
\* telemetry point a finished tick has cached carries the rack temperature
\* and the cooling power that this tick's own thermal step produced
SnapshotIsOwnStep ==
    (tick_task.pc = "idle" /\ latest # NoPoint)
    => /\ latest.rack_temp_c = tick_task.stepped.T_c
       /\ latest.cooling_kw = tick_task.stepped.P_cool_kw

\* the calls that produced a report
Reports == { i \in 1..Len(explained) : explained[i].report }

\* the time of the last report before call i (0: none yet)
LastReportBefore(i) ==
    LET before == { j \in Reports : j < i }
    IN  IF before = {} THEN 0
        ELSE explained[CHOOSE j \in before : \A k \in before : k <= j].ts

\* C24: two calls of the explain endpoint that both produce a report are at
\* least 1.5 s apart; a call less than 1.5 s after the last report gets the
\* rate-limited answer (confidence 0, from_llm false) without the explainer
\* being invoked, and does not restart the cooldown
ExplainCooldown ==
    /\ \A i, j \in Reports : i < j => explained[j].ts - explained[i].ts >= Cooldown
    /\ \A i \in 1..Len(explained) :
          explained[i].ts - LastReportBefore(i) < Cooldown
          => /\ ~explained[i].report
             /\ ~explained[i].explainer
             /\ explained[i].confidence = 0
             /\ ~explained[i].from_llm
    /\ last_call_ts = LastReportBefore(Len(explained) + 1)

\* a report, a refused call within its cooldown, a second refused call that
\* a restarted cooldown would not have let through to a later report
RefusedThenServed ==
    /\ Len(explained) = 3
    /\ explained[1].report /\ ~explained[2].report /\ explained[3].report
    /\ explained[3].ts - explained[2].ts < Cooldown
    /\ explained[3].ts - explained[1].ts = Cooldown

\* ceil(a / b) for b > 0
CeilDiv(a, b) == (a + b - 1) \div b

\* C25: every approved plan covers the whole horizon: it has exactly
\* ceil(horizon_s / dt_s) steps, step i (from 0) at t_offset_s = i * dt_s
ApprovedPlanCoversHorizon ==
    (Decided /\ ~out.plan.blocked)
    => /\ Len(out.plan.steps) = CeilDiv(call.horizon_s, call.dt_s)
       /\ \A i \in 1..Len(out.plan.steps) :
             out.plan.steps[i].t_offset_s = (i - 1) * call.dt_s

\* C26: gate B: a candidate step whose prediction reaches T_max
\* (thermal_ok_next false) ends its simulation there with a THERMAL_OVER_TEMP
\* event, BLOCKED and HIGH, and its row carries the reason THERMAL_OVER_TEMP
OvershootStopsAtGateB ==
    Decided =>
        \A k \in 1..Len(candidates) :
            \A i \in 1..Len(candidates[k].steps) :
                candidates[k].steps[i].rack_temp_c >= ThermalTwinConfig.T_max
                => /\ ~candidates[k].ok
                   /\ i = Len(candidates[k].steps)
                   /\ candidates[k].steps[i].reason = "THERMAL_OVER_TEMP"
                   /\ \E j \in 1..Len(candidates[k].events) :
                         /\ candidates[k].events[j].rule_id = "THERMAL_OVER_TEMP"
                         /\ candidates[k].events[j].status = "BLOCKED"
                         /\ candidates[k].events[j].severity = "HIGH"

\* C27: a plan blocked as THERMAL_BLOCKED names THERMAL as its primary
\* constraint, T_max as the threshold, and a constraint_value within 0.5 C of
\* T_max or above it
ThermalBlockShowsMargin ==
    (Decided /\ out.plan.blocked /\ out.plan.reason = "THERMAL_BLOCKED")
    => /\ out.plan.primary_constraint = Some("THERMAL")
       /\ out.plan.constraint_threshold = Some(ThermalTwinConfig.T_max)
       /\ out.plan.constraint_value # None
       /\ out.plan.constraint_value[1] >= ThermalTwinConfig.T_max - U \div 2

RECURSIVE CountSum(_, _)
\* the counts of the first n rows, added up
CountSum(items, n) ==
    IF n = 0 THEN 0 ELSE CountSum(items, n - 1) + items[n].count[1]

\* the row that holds record i of a coalesced read
RowOf(i) ==
    CHOOSE k \in 1..Len(seen.items) :
        CountSum(seen.items, k - 1) < i /\ i <= CountSum(seen.items, k)

SameBlock(a, b) ==
    /\ a.blocked /\ b.blocked
    /\ a.reason_code = b.reason_code
    /\ a.primary_constraint = b.primary_constraint
    /\ a.requested_kw = b.requested_kw

\* C28: a coalesced read of the decision log (records newest first): the
\* counts of the rows add up to the records read; a row holds consecutive
\* records, from last_ts back to first_ts and no more than window_s apart;
\* a row of several records holds blocked records of one reason, primary
\* constraint and request; a non-blocked record has a row of its own; and a
\* blocked record like the one before it, within window_s of that row's
\* last_ts, is in that row
CoalescedLog ==
    (seen.op = "decision_recent" /\ seen.coalesce) =>
        LET recs == seen.records
            rows == seen.items
        IN  /\ CountSum(rows, Len(rows)) = Len(recs)
            /\ \A k \in 1..Len(rows) :
                  /\ rows[k].count[1] >= 1
                  /\ rows[k].last_ts[1] = recs[CountSum(rows, k - 1) + 1].ts
                  /\ rows[k].first_ts[1] = recs[CountSum(rows, k)].ts
                  /\ rows[k].last_ts[1] - rows[k].first_ts[1]
                        <= 2 * seen.window_s
                  /\ rows[k].last_ts[1] >= rows[k].first_ts[1]
            /\ \A i \in 1..Len(recs) :
                  ~recs[i].blocked => rows[RowOf(i)].count[1] = 1
            /\ \A i, j \in 1..Len(recs) :
                  (i # j /\ RowOf(i) = RowOf(j)) => SameBlock(recs[i], recs[j])
            /\ \A i \in 1..(Len(recs) - 1) :
                  (SameBlock(recs[i], recs[i + 1])
                     /\ rows[RowOf(i)].last_ts[1] - recs[i + 1].ts
                            <= 2 * seen.window_s)
                  => RowOf(i + 1) = RowOf(i)

\* read with a window of 10 s: three blocked decisions alike, 5 s apart and
\* 10 s apart, the third too old for the row of the first two although it is
\* within 10 s of the second; and an approved decision in a row of its own
ChainCutByWindow ==
    /\ seen.op = "decision_recent" /\ seen.coalesce /\ seen.window_s = 10
    /\ Len(seen.records) = 4
    /\ Len(seen.items) = 3
    /\ seen.items[1].count = Some(2)
    /\ seen.items[2].count = Some(1)
    /\ SameBlock(seen.records[2], seen.records[3])
    /\ seen.records[2].ts - seen.records[3].ts <= 20
    /\ ~seen.records[4].blocked

\* min(approved, i * ramp_rate_kw_per_s * dt_s) for the last decision, in
\* 1/Fine kW (the approved value never exceeds MaxFineKW)
RampValue(i) ==
    IF i * call.ramp_rate_kw_per_s * call.dt_s > MaxFineKW
    THEN out.plan.approved_deltaP_kw
    ELSE Min(out.plan.approved_deltaP_kw,
             i * call.ramp_rate_kw_per_s * call.dt_s * Fine)

\* the simulated state the i-th step of the approved plan starts from
PlanStateBefore(i) ==
    IF i = 1
    THEN call.planner_state
    ELSE ThermalTwinState(out.plan.steps[i - 1].rack_temp_c,
                          out.plan.steps[i - 1].cooling_kw)

\* C29: in a non-blocked plan the i-th step (from 1) proposes
\* min(approved, i * ramp_rate * dt): the proposals never decrease and never
\* exceed the approved value, each step's thermal prediction is made at the
\* ramp-limited value, and when approved exceeds N * ramp_rate * dt the last
\* step stays below it
PlanFollowsRamp ==
    (Decided /\ ~out.plan.blocked) =>
        LET steps == out.plan.steps
            n == Len(steps)
        IN  /\ n >= 1
            /\ \A i \in 1..n :
                  /\ steps[i].proposed_deltaP_kw = RampValue(i)
                  /\ steps[i].proposed_deltaP_kw <= out.plan.approved_deltaP_kw
                  /\ i > 1 => steps[i - 1].proposed_deltaP_kw
                                 <= steps[i].proposed_deltaP_kw
                  /\ LET pred == predict(ThermalTwinConfig, PlanStateBefore(i),
                                   call.P_site_kw
                                     + steps[i].proposed_deltaP_kw \div FinePerU,
                                   call.dt_s)
                     IN  /\ steps[i].rack_temp_c = pred.rack_temp_c_next
                         /\ steps[i].cooling_kw = pred.cooling_kw_next
            /\ (n * call.ramp_rate_kw_per_s * call.dt_s <= MaxFineKW
                  /\ out.plan.approved_deltaP_kw
                        > n * call.ramp_rate_kw_per_s * call.dt_s * Fine)
               => steps[n].proposed_deltaP_kw < out.plan.approved_deltaP_kw

\* an approved plan whose ramp never reaches the approved value
RampEndsBelowApproved ==
    /\ Decided
    /\ ~out.plan.blocked
    /\ Len(out.plan.steps) * call.ramp_rate_kw_per_s * call.dt_s <= MaxFineKW
    /\ out.plan.approved_deltaP_kw
          > Len(out.plan.steps) * call.ramp_rate_kw_per_s * call.dt_s * Fine
    /\ out.plan.steps[Len(out.plan.steps)].proposed_deltaP_kw
          < out.plan.approved_deltaP_kw

\* the final-phase APPROVED_DELTA_SELECTED events held by the ring
FinalDecisionEvents ==
    { j \in 1..Len(trace) : /\ is_final_phase(trace[j])
                            /\ trace[j].rule_id = "APPROVED_DELTA_SELECTED" }

\* C30: the 20-iteration bisection never probes the cap itself: for every
\* non-blocked plan with cap = min(request, headroom) >= 1 kW no simulated
\* candidate is the cap, the approved value is the largest probed midpoint
\* that simulated successfully and is strictly less than the cap, at best
\* cap * (1 - 2^-20); so decide gives every non-blocked decision a confidence
\* of at most 0.65, and the KPI clip test counts every non-blocked decision
\* in unsafe_actions_prevented_total: the total read is the number of
\* final-decision events in the ring, ALLOWED ones included.
BisectionStaysBelowCap ==
    /\ (Decided /\ ~out.blocked /\ PlannerCap >= Fine) =>
          /\ Len(candidates) = BisectIters
          /\ \A k \in 1..Len(candidates) :
                 /\ candidates[k].desired_kw # PlannerCap
                 /\ candidates[k].ok
                      => candidates[k].desired_kw <= out.approved_deltaP_kw
          /\ \E k \in 1..Len(candidates) :
                 /\ candidates[k].ok
                 /\ candidates[k].desired_kw = out.approved_deltaP_kw
          /\ out.approved_deltaP_kw < PlannerCap
          /\ out.approved_deltaP_kw <= PlannerCap - PlannerCap \div 2^20
          /\ out.confidence <= 65
    /\ seen.op = "get_kpi_summary" =>
          /\ seen.kpis.unsafe_actions_prevented_total
                 = Cardinality(FinalDecisionEvents)
          /\ \A j \in FinalDecisionEvents :
                 trace[j].status = "ALLOWED" => kpi_clipped(trace[j])

\* a non-blocked decision that lost a probe on the way, read back by the
\* KPI roll-up as one prevented action
ClippedDecisionCounted ==
    /\ seen.op = "get_kpi_summary"
    /\ Decided
    /\ ~out.blocked
    /\ PlannerCap >= Fine
    /\ \E k \in 1..Len(candidates) : ~candidates[k].ok
    /\ \E j \in FinalDecisionEvents :
           /\ trace[j].status = "ALLOWED"
           /\ trace[j].decision_id = out.decision_id
    /\ seen.kpis.unsafe_actions_prevented_total >= 1
====
